---- MODULE Spec2Model ----
(***************************************************************************)
(* A model of the Time Intelligence Engine of WorkOS                       *)
(* (src/core/time_intelligence.py): a service over one JSON document       *)
(* holding a log of time entries and a list of accepted work breakdowns.   *)
(*                                                                         *)
(* Conventions of the translation                                          *)
(*   - Python None / JSON null is the empty tuple <<>>, a present value x  *)
(*     is <<x>> (an Optional field).                                       *)
(*   - A timestamp is a number of seconds; isoformat wraps it (<<t>>), and *)
(*     fromisoformat unwraps it and raises on None.                        *)
(*   - A float is an exact rational [n, d], or a surd a + b*sqrt(v) where  *)
(*     math.sqrt is involved.                                              *)
(*   - Text is a string; an f-string is a concatenation (\o, ToString).    *)
(***************************************************************************)
EXTENDS Integers, Sequences, FiniteSets, TLC

VARIABLES
    store,   \* the persisted JSON document: [entries, breakdowns]
    now,     \* the UTC clock read by datetime.now, in seconds
    uuid,    \* the unique ids drawn so far (uuid4 never repeats), per prefix
    ret,     \* the last call: [op, args, val, exc]
    calls,   \* per concurrent caller: the call in flight between its load and its save
    history  \* what the calls told their callers: [acked, overlapped]

vars == <<store, now, uuid, ret, calls, history>>

----------------------------------------------------------------------------
(* Bounds of the model *)

MaxEntries == 2
MaxClock == 1
MaxDistractions == 1
MaxBreakdowns == 1
\* distractions recorded in all by the callers of DistractionLogSpec
MaxDistractionLog == 3
\* days of work in the histories of TrendSpec
MaxTrendDays == 6

----------------------------------------------------------------------------
(* Optional values *)

None == <<>>
Some(x) == <<x>>
IsNone(o) == o = <<>>
The(o) == o[1]

----------------------------------------------------------------------------
(* Exact arithmetic standing for Python floats *)

Abs(x) == IF x < 0 THEN -x ELSE x

RECURSIVE GCD(_, _)
GCD(a, b) == IF b = 0 THEN a ELSE GCD(b, a % b)

\* the rational n/d in lowest terms with a positive denominator
Rat(n, d) ==
    LET s == IF d < 0 THEN -1 ELSE 1
        g == GCD(Abs(n), Abs(d))
    IN [n |-> (s * n) \div g, d |-> (s * d) \div g]

RInt(i) == [n |-> i, d |-> 1]
RZero == RInt(0)
RAdd(x, y) == Rat(x.n * y.d + y.n * x.d, x.d * y.d)
RSub(x, y) == Rat(x.n * y.d - y.n * x.d, x.d * y.d)
RMul(x, y) == Rat(x.n * y.n, x.d * y.d)
RDiv(x, y) == Rat(x.n * y.d, x.d * y.n)
RLt(x, y) == x.n * y.d < y.n * x.d
RLe(x, y) == x.n * y.d <= y.n * x.d

IsSquare(k) == \E r \in 0..k : r * r = k
ISqrt(k) == CHOOSE r \in 0..k : r * r = k

\* a + b*sqrt(v) in canonical form: a rational when v is a perfect square
Surd(a, b, v) ==
    IF b = RZero \/ v = RZero
    THEN [a |-> a, b |-> RZero, v |-> RZero]
    ELSE IF IsSquare(v.n) /\ IsSquare(v.d)
    THEN [a |-> RAdd(a, RMul(b, Rat(ISqrt(v.n), ISqrt(v.d)))), b |-> RZero, v |-> RZero]
    ELSE [a |-> a, b |-> b, v |-> v]

SRat(x) == Surd(x, RZero, RZero)
SRadicand(x, y) == IF x.b = RZero THEN y.v ELSE x.v
SAdd(x, y) == Surd(RAdd(x.a, y.a), RAdd(x.b, y.b), SRadicand(x, y))
SSub(x, y) == Surd(RSub(x.a, y.a), RSub(x.b, y.b), SRadicand(x, y))
SScale(f, x) == Surd(RMul(f, x.a), RMul(f, x.b), x.v)
SSquare(x) ==
    Surd(RAdd(RMul(x.a, x.a), RMul(RMul(x.b, x.b), x.v)),
         RMul(RInt(2), RMul(x.a, x.b)), x.v)

\* a + b*sqrt(v) >= 0
SNonNeg(x) ==
    LET a2 == RMul(x.a, x.a)
        b2v == RMul(RMul(x.b, x.b), x.v)
    IN IF x.b = RZero THEN RLe(RZero, x.a)
       ELSE IF RLe(RZero, x.a) /\ RLe(RZero, x.b) THEN TRUE
       ELSE IF RLt(x.a, RZero) /\ RLt(x.b, RZero) THEN FALSE
       ELSE IF RLe(RZero, x.a) THEN RLe(b2v, a2)
       ELSE RLe(a2, b2v)

\* math.sqrt(variance)
Sqrt(v) == Surd(RZero, RInt(1), v)
\* max(0, x) without the clamp
Unclamped(x) == x
\* max(0, x)
Max0(x) == IF SNonNeg(x) THEN x ELSE SRat(RZero)

----------------------------------------------------------------------------
(* Sequences and strings *)

RECURSIVE SumSeq(_)
SumSeq(s) == IF s = <<>> THEN 0 ELSE Head(s) + SumSeq(Tail(s))

RECURSIVE SumRat(_)
SumRat(s) == IF s = <<>> THEN RZero ELSE RAdd(Head(s), SumRat(Tail(s)))

Range(s) == {s[i] : i \in 1..Len(s)}

\* [F(x) for x in s]
Map(s, F(_)) == [i \in 1..Len(s) |-> F(s[i])]

\* w in t, for strings
Contains(t, w) ==
    \E i \in 1..(Len(t) - Len(w) + 1) : SubSeq(t, i, i + Len(w) - 1) = w

LowerChar(c) ==
    CASE c = "A" -> "a" [] c = "B" -> "b" [] c = "C" -> "c" [] c = "D" -> "d"
      [] c = "E" -> "e" [] c = "F" -> "f" [] c = "G" -> "g" [] c = "H" -> "h"
      [] c = "I" -> "i" [] c = "J" -> "j" [] c = "K" -> "k" [] c = "L" -> "l"
      [] c = "M" -> "m" [] c = "N" -> "n" [] c = "O" -> "o" [] c = "P" -> "p"
      [] c = "Q" -> "q" [] c = "R" -> "r" [] c = "S" -> "s" [] c = "T" -> "t"
      [] c = "U" -> "u" [] c = "V" -> "v" [] c = "W" -> "w" [] c = "X" -> "x"
      [] c = "Y" -> "y" [] c = "Z" -> "z" [] OTHER -> c

\* str.lower()
RECURSIVE Lower(_)
Lower(t) ==
    IF Len(t) = 0 THEN ""
    ELSE LowerChar(SubSeq(t, 1, 1)) \o Lower(SubSeq(t, 2, Len(t)))

----------------------------------------------------------------------------
(* Binary floating point: the double of Python's float, with a mantissa of  *)
(* 53 bits and rounding to nearest, ties to even. Mantissas are naturals    *)
(* written as sequences of limbs, least significant first                   *)

Limb == 2^13
\* 52 stored bits and the leading one
MantissaBits == 52 + 1
\* binary places a quotient is computed to before it is rounded: enough for
\* more than MantissaBits + 1 bits whatever the divisor below Limb
GuardBits == MantissaBits + 17

RECURSIVE BigOf(_)
BigOf(n) == IF n = 0 THEN <<>> ELSE <<n % Limb>> \o BigOf(n \div Limb)

\* without most significant limbs of 0
RECURSIVE BigNorm(_)
BigNorm(x) ==
    IF x = <<>> THEN <<>>
    ELSE IF x[Len(x)] = 0 THEN BigNorm(SubSeq(x, 1, Len(x) - 1))
    ELSE x

RECURSIVE BigMulSmall(_, _, _)
BigMulSmall(x, k, carry) ==
    IF x = <<>> THEN BigOf(carry)
    ELSE LET t == Head(x) * k + carry
         IN <<t % Limb>> \o BigMulSmall(Tail(x), k, t \div Limb)

RECURSIVE BigAdd(_, _, _)
BigAdd(x, y, carry) ==
    IF x = <<>> /\ y = <<>> THEN BigOf(carry)
    ELSE LET a == IF x = <<>> THEN 0 ELSE Head(x)
             b == IF y = <<>> THEN 0 ELSE Head(y)
             t == a + b + carry
         IN <<t % Limb>>
                \o BigAdd(IF x = <<>> THEN <<>> ELSE Tail(x),
                          IF y = <<>> THEN <<>> ELSE Tail(y), t \div Limb)

RECURSIVE BigMul(_, _)
BigMul(x, y) ==
    IF y = <<>> THEN <<>>
    ELSE BigAdd(BigMulSmall(x, Head(y), 0), <<0>> \o BigMul(x, Tail(y)), 0)

\* quotient and remainder of x by a divisor below Limb
RECURSIVE BigDivSmall(_, _)
BigDivSmall(x, q) ==
    IF x = <<>> THEN [quot |-> <<>>, rem |-> 0]
    ELSE LET upper == BigDivSmall(Tail(x), q)
             t == upper.rem * Limb + Head(x)
         IN [quot |-> <<t \div q>> \o upper.quot, rem |-> t % q]

\* x * 2^s
BigShl(x, s) ==
    [i \in 1..(s \div 13) |-> 0] \o BigMulSmall(x, 2^(s % 13), 0)

\* floor(x / 2^s), and whether a bit was shifted out
BigShr(x, s) ==
    LET limbs == IF s \div 13 > Len(x) THEN Len(x) ELSE s \div 13
        dropped == SubSeq(x, 1, limbs)
        d == BigDivSmall(SubSeq(x, limbs + 1, Len(x)), 2^(s % 13))
    IN [quot |-> BigNorm(d.quot),
        sticky |-> d.rem # 0 \/ \E i \in 1..limbs : dropped[i] # 0]

RECURSIVE BitLen(_)
BitLen(n) == IF n = 0 THEN 0 ELSE 1 + BitLen(n \div 2)

\* the number of bits of x, which has no most significant limb of 0
BigBitLen(x) == IF x = <<>> THEN 0 ELSE 13 * (Len(x) - 1) + BitLen(x[Len(x)])

BigOdd(x) == x # <<>> /\ Head(x) % 2 = 1

\* x < y, for numbers without most significant limbs of 0
RECURSIVE BigLt(_, _)
BigLt(x, y) ==
    IF Len(x) # Len(y) THEN Len(x) < Len(y)
    ELSE IF x = <<>> THEN FALSE
    ELSE IF x[Len(x)] # y[Len(y)] THEN x[Len(x)] < y[Len(y)]
    ELSE BigLt(SubSeq(x, 1, Len(x) - 1), SubSeq(y, 1, Len(y) - 1))

\* a double that is not negative: m * 2^e with m of MantissaBits bits, or 0
FZero == [m |-> <<>>, e |-> 0]

\* n * 2^e (and more, if sticky) rounded to the nearest double, ties to even;
\* n has more than MantissaBits + 1 bits
FRound(n, sticky, e) ==
    LET s == BigBitLen(n) - MantissaBits
        kept == BigShr(n, s - 1)
        m == BigShr(kept.quot, 1).quot
        up == BigOdd(kept.quot) /\ (sticky \/ kept.sticky \/ BigOdd(m))
        rounded == IF up THEN BigNorm(BigAdd(m, <<1>>, 0)) ELSE m
    IN IF BigBitLen(rounded) > MantissaBits
       THEN [m |-> BigShr(rounded, 1).quot, e |-> e + s + 1]
       ELSE [m |-> rounded, e |-> e + s]

\* p / q for ints p >= 0 and q > 0: true division, correctly rounded
FDiv(p, q) ==
    IF p = 0 THEN FZero
    ELSE LET d == BigDivSmall(BigShl(BigOf(p), GuardBits), q)
         IN FRound(BigNorm(d.quot), d.rem # 0, -GuardBits)

FMul(a, b) ==
    IF a.m = <<>> \/ b.m = <<>> THEN FZero
    ELSE FRound(BigNorm(BigMul(a.m, b.m)), FALSE, a.e + b.e)

\* a < b
FLt(a, b) ==
    IF b.m = <<>> THEN FALSE
    ELSE IF a.m = <<>> THEN TRUE
    ELSE a.e < b.e \/ (a.e = b.e /\ BigLt(a.m, b.m))

----------------------------------------------------------------------------
(* The clock and the timestamps' text form *)

\* the instants (seconds) at which the clock is read
Instants == <<0, 90, 210, 7410, 36210>>
\* the readings of a short run, and those of a run one reading longer
Clock == {Instants[i] : i \in 1..(MaxClock + 1)}
LongClock == {Instants[i] : i \in 1..(MaxClock + 2)}

\* every reading: durations up to 603 minutes, 120 and 480 among them
FullClock == {Instants[i] : i \in 1..Len(Instants)}
\* the readings of the distraction scenario: durations of 20, 40 and 60 minutes
ScenarioClock == {0, 2400, 3600}

isoformat(t) == Some(t)
fromisoformat(s) == The(s)

\* int(x / 60): Python's int() truncates towards zero
IntDiv60(secs) == IF secs >= 0 THEN secs \div 60 ELSE -((-secs) \div 60)

\* f"time_{...}_{uuid4}" and f"breakdown_{...}_{uuid4}": n is the uuid drawn
WorkId(n) == "time_" \o ToString(n)
BreakdownId(n) == "breakdown_" \o ToString(n)

----------------------------------------------------------------------------
(* The inputs the callers pass *)

\* start_work(description, work_type, knowledge_refs, people_refs)
StartInputs ==
    { [description |-> "fix login bug", work_type |-> "technical",
       knowledge_refs |-> <<"API">>, people_refs |-> <<>>],
      [description |-> "write release notes", work_type |-> "technical",
       knowledge_refs |-> <<"DB", "DB">>, people_refs |-> <<"bob">>],
      [description |-> "fix login bug", work_type |-> "writing",
       knowledge_refs |-> <<"API", "DB">>, people_refs |-> <<"amy">>] }

\* end_work(_, completion_notes, completion_percentage)
EndDefaults == [completion_notes |-> "", completion_percentage |-> None]
EndInputs ==
    { EndDefaults,
      [completion_notes |-> "done", completion_percentage |-> Some(100)] }

\* record_distraction(_, distraction_type, duration_minutes, description)
DistractionInputs ==
    { [type |-> "meeting", duration_minutes |-> 15, description |-> "Quick sync"] }

\* distractions that differ in every argument, the second with the default
\* description
DistractionLogInputs ==
    DistractionInputs
        \cup { [type |-> "email", duration_minutes |-> 5, description |-> ""] }

\* link_time_to_knowledge(_, knowledge_refs), link_time_to_people(_, people_refs)
LinkKnowledgeInputs == {<<"DB">>}
LinkPeopleInputs == {<<"bob">>}

\* suggest_breakdown(work_description, work_type, knowledge_refs)
BreakdownInputs ==
    { [description |-> "fix login bug", work_type |-> "technical",
       knowledge_refs |-> <<"API">>],
      [description |-> "Implement and test the full login API",
       work_type |-> "technical", knowledge_refs |-> <<"API">>],
      [description |-> "Implement and test the full login API",
       work_type |-> "general", knowledge_refs |-> <<>>] }

\* descriptions of low (0), medium (3, 4) and high (5, 6) complexity, the
\* third and the fifth without a keyword of a technical phase, for every
\* chunk generator
GatingInputs ==
    [description : {"fix login bug",
                    "Implement and test the full login API",
                    "fix and also update the entire login",
                    "design, build and then test the full API",
                    "fix, debug and also update all of the entire login"},
     work_type : {"technical", "writing", "meeting", "general"},
     knowledge_refs : {<<>>, <<"API">>}]

\* the arguments of the statistical queries
QueryDescriptions == {"fix login bug", "plan the launch"}
QueryTypes == {"technical"}
QueryKnowledge == {<<>>, <<"API">>, <<"API", "DB">>}
QueryPeople == {<<>>, <<"bob">>}
QueryTolerance == {20}
QueryMinMinutes == {0, 1}

\* the ids a caller may pass: every id in the store, and one that is not
IdArgs ==
    {store.entries[i].id : i \in 1..Len(store.entries)} \cup {WorkId(uuid.time + 1)}
BreakdownIdArgs ==
    {store.breakdowns[i].breakdown_id : i \in 1..Len(store.breakdowns)}
        \cup {BreakdownId(uuid.breakdown + 1)}

----------------------------------------------------------------------------
(* The data model *)

\* TimeEntry(...).to_dict(): the eleven fields of the dataclass; the three
\* keys accept_breakdown adds are None when the key is absent
TimeEntry(id, start_time, end_time, duration_minutes, work_description, work_type, knowledge_refs, people_refs, distractions, completion_percentage, notes) ==
    [id |-> id, start_time |-> start_time, end_time |-> end_time,
     duration_minutes |-> duration_minutes,
     work_description |-> work_description, work_type |-> work_type,
     knowledge_refs |-> knowledge_refs, people_refs |-> people_refs,
     distractions |-> distractions,
     completion_percentage |-> completion_percentage, notes |-> notes,
     breakdown_id |-> None, chunk_id |-> None, estimated_minutes |-> None]

\* the entry dict carries keys that are no TimeEntry field
HasExtraKeys(e) == e.breakdown_id # None

\* {k: v for k, v in entry.items() if k in time_entry_fields}
Filtered(e) ==
    [e EXCEPT !.breakdown_id = None, !.chunk_id = None,
              !.estimated_minutes = None]

\* {"entries": [], "version": "1.0"}; "breakdowns" is read with a default of []
EmptyStore == [entries |-> <<>>, breakdowns |-> <<>>]

\* the return of a call: its value, or an exception that left the method
Return(op, args, val) == [op |-> op, args |-> args, val |-> val, exc |-> FALSE]
Raise(op, args, what) == [op |-> op, args |-> args, val |-> what, exc |-> TRUE]

\* the callers that may run a mutation at the same time, and a caller at rest
Callers == {"A", "B"}
Idle ==
    [pc |-> "idle", op |-> "none", work_id |-> "", t |-> 0, in |-> <<>>,
     data |-> EmptyStore]

\* for entry in data["entries"]: if entry["id"] == work_id: ... break
\* the position of the first entry with that id, 0 when there is none
FindEntry(entries, work_id) ==
    IF \E i \in 1..Len(entries) : entries[i].id = work_id
    THEN CHOOSE i \in 1..Len(entries) :
            /\ entries[i].id = work_id
            /\ \A j \in 1..(i - 1) : entries[j].id # work_id
    ELSE 0

----------------------------------------------------------------------------
(* Time Entry Store *)

\* the callers start at most MaxEntries + k entries
Room(k) == Len(store.entries) < MaxEntries + k

Init ==
    /\ store = EmptyStore
    /\ now = Instants[1]
    /\ uuid = [time |-> 0, breakdown |-> 0]
    /\ ret = Return("init", <<>>, None)
    /\ calls = [c \in Callers |-> Idle]
    /\ history = [acked |-> {}, overlapped |-> FALSE]

\* time passes between two calls
Tick(instants) ==
    /\ \E t \in instants : t > now /\ now' = t
    /\ UNCHANGED <<store, uuid, ret, calls, history>>

\* the entry start_work creates
NewEntry(work_id, t, in) ==
    TimeEntry(work_id, isoformat(t), None, None, in.description, in.work_type,
              in.knowledge_refs, in.people_refs, <<>>, None, "")

\* the entry put at the head of the log
start_work_at_head(data, work_id, t, in) ==
    [data EXCEPT !.entries = <<NewEntry(work_id, t, in)>> \o @]

\* data["entries"].append(entry.to_dict())
start_work(data, work_id, t, in) ==
    [data EXCEPT !.entries = Append(@, NewEntry(work_id, t, in))]

StartWork(in) ==
    /\ uuid' = [uuid EXCEPT !.time = @ + 1]
    /\ store' = start_work(store, WorkId(uuid.time + 1), now, in)
    /\ ret' = Return("start_work", in, WorkId(uuid.time + 1))
    /\ UNCHANGED <<now, calls, history>>

\* round(x / 60): to the nearest integer, a half to the even neighbour
Round60(secs) ==
    LET q == secs \div 60
        r == secs % 60
    IN IF r < 30 THEN q
       ELSE IF r > 30 THEN q + 1
       ELSE IF q % 2 = 0 THEN q ELSE q + 1

\* the elapsed time rounded to the nearest whole minute
DurationRounded(start_time, end_time) == Round60(end_time - start_time)

\* duration_minutes = int((end_time - start_time).total_seconds() / 60)
Duration(start_time, end_time) == IntDiv60(end_time - start_time)

\* the entry with end_time set and duration_minutes left alone
EndedWithoutDuration(e, t, in) ==
    [e EXCEPT !.end_time = isoformat(t),
              !.notes = in.completion_notes,
              !.completion_percentage =
                  IF in.completion_percentage # None
                  THEN in.completion_percentage ELSE @]

\* the entry as end_work rewrites it
Ended(e, t, in) ==
    [e EXCEPT !.end_time = isoformat(t),
              !.duration_minutes = Some(Duration(fromisoformat(e.start_time), t)),
              !.notes = in.completion_notes,
              !.completion_percentage =
                  IF in.completion_percentage # None
                  THEN in.completion_percentage ELSE @]

end_work(data, work_id, t, in) ==
    LET i == FindEntry(data.entries, work_id)
    IN [data EXCEPT !.entries[i] = Ended(@, t, in)]

EndWork(work_id, in) ==
    LET i == FindEntry(store.entries, work_id)
        args == [work_id |-> work_id, in |-> in]
    IN /\ IF i = 0
          THEN \* if not entry_dict: return None
               /\ ret' = Return("end_work", args, None)
               /\ UNCHANGED store
          ELSE IF store.entries[i].start_time = None
          THEN \* datetime.fromisoformat(None) raises TypeError before any write
               /\ ret' = Raise("end_work", args, "TypeError")
               /\ UNCHANGED store
          ELSE /\ store' = end_work(store, work_id, now, in)
               /\ ret' = IF HasExtraKeys(store.entries[i])
                         THEN \* the TimeEntry constructor called with unknown keywords
                              Raise("end_work", args, "TypeError")
                         ELSE Return("end_work", args, Some(store'.entries[i]))
       /\ UNCHANGED <<now, uuid, calls, history>>

\* number of distraction records in the store
TotalDistractions(entries) ==
    SumSeq([i \in 1..Len(entries) |-> Len(entries[i].distractions)])

Distraction(t, in) ==
    [type |-> in.type, duration_minutes |-> in.duration_minutes,
     description |-> in.description, timestamp |-> isoformat(t)]

\* record_distraction putting the new record first
record_distraction_at_head(data, work_id, t, in) ==
    LET i == FindEntry(data.entries, work_id)
    IN [data EXCEPT !.entries[i].distractions = <<Distraction(t, in)>> \o @]

record_distraction(data, work_id, t, in) ==
    LET i == FindEntry(data.entries, work_id)
    IN [data EXCEPT !.entries[i].distractions = Append(@, Distraction(t, in))]

\* record_distraction raising KeyError for an id it does not find
RecordDistractionStrict(work_id, in) ==
    LET i == FindEntry(store.entries, work_id)
        args == [work_id |-> work_id, in |-> in]
    IN /\ IF i = 0
          THEN /\ ret' = Raise("record_distraction", args, "KeyError")
               /\ UNCHANGED store
          ELSE /\ TotalDistractions(store.entries) < MaxDistractions
               /\ store' = record_distraction(store, work_id, now, in)
               /\ ret' = Return("record_distraction", args, TRUE)
       /\ UNCHANGED <<now, uuid, calls, history>>

RecordDistraction(work_id, in) ==
    LET i == FindEntry(store.entries, work_id)
        args == [work_id |-> work_id, in |-> in]
    IN /\ IF i = 0
          THEN /\ ret' = Return("record_distraction", args, FALSE)
               /\ UNCHANGED store
          ELSE /\ TotalDistractions(store.entries) < MaxDistractions
               /\ store' = record_distraction(store, work_id, now, in)
               /\ ret' = Return("record_distraction", args, TRUE)
       /\ UNCHANGED <<now, uuid, calls, history>>

\* record_distraction of callers that record up to MaxDistractionLog
\* distractions in all
RecordDistractions(work_id, in) ==
    LET i == FindEntry(store.entries, work_id)
        args == [work_id |-> work_id, in |-> in]
    IN /\ IF i = 0
          THEN /\ ret' = Return("record_distraction", args, FALSE)
               /\ UNCHANGED store
          ELSE /\ TotalDistractions(store.entries) < MaxDistractionLog
               /\ store' = record_distraction(store, work_id, now, in)
               /\ ret' = Return("record_distraction", args, TRUE)
       /\ UNCHANGED <<now, uuid, calls, history>>

----------------------------------------------------------------------------
(* Concurrent callers: every mutation loads the whole file, changes its     *)
(* copy and writes the whole file back, with no lock in between             *)

\* json.load of the file, and the file after json.dump of a copy
_load_time_data == store
\* a save that writes nothing
_save_time_data_skipped(data) == store
_save_time_data(data) == data

Busy(c) == calls[c].pc # "idle"

\* caller c has loaded the file for a call; another call may be in flight
Loaded(c, op, work_id, t, in) ==
    /\ ~Busy(c)
    /\ calls' = [calls EXCEPT ![c] =
                    [pc |-> "loaded", op |-> op, work_id |-> work_id, t |-> t,
                     in |-> in, data |-> _load_time_data]]
    /\ history' = [history EXCEPT !.overlapped =
                      @ \/ \E other \in Callers \ {c} : Busy(other)]

\* caller c has saved its copy and returned val
Saved(c, data, args, val) ==
    /\ store' = _save_time_data(data)
    /\ ret' = Return(calls[c].op, args, val)
    /\ history' = [history EXCEPT !.acked = @ \cup {<<calls[c].op, calls[c].work_id>>}]
    /\ calls' = [calls EXCEPT ![c] = Idle]
    /\ UNCHANGED <<now, uuid>>

\* start_work up to its load: the id and the entry are made first
BeginStartWork(c, in) ==
    /\ Loaded(c, "start_work", WorkId(uuid.time + 1), now, in)
    /\ uuid' = [uuid EXCEPT !.time = @ + 1]
    /\ UNCHANGED <<store, now, ret>>

\* start_work from its append to its return
FinishStartWork(c) ==
    LET call == calls[c]
    IN /\ call.pc = "loaded" /\ call.op = "start_work"
       /\ Saved(c, start_work(call.data, call.work_id, call.t, call.in),
                call.in, call.work_id)

\* end_work up to its lookup: it returns None for an id it does not find
BeginEndWork(c, work_id, in) ==
    IF FindEntry(_load_time_data.entries, work_id) = 0
    THEN /\ ~Busy(c)
         /\ ret' = Return("end_work", [work_id |-> work_id, in |-> in], None)
         /\ UNCHANGED <<store, now, uuid, calls, history>>
    ELSE /\ Loaded(c, "end_work", work_id, now, in)
         /\ UNCHANGED <<store, now, uuid, ret>>

\* end_work from reading the clock to its return
FinishEndWork(c) ==
    LET call == calls[c]
        data == end_work(call.data, call.work_id, now, call.in)
    IN /\ call.pc = "loaded" /\ call.op = "end_work"
       /\ Saved(c, data, [work_id |-> call.work_id, in |-> call.in],
                Some(data.entries[FindEntry(data.entries, call.work_id)]))

\* record_distraction up to its lookup: False for an id it does not find
BeginRecordDistraction(c, work_id, in) ==
    IF FindEntry(_load_time_data.entries, work_id) = 0
    THEN /\ ~Busy(c)
         /\ ret' = Return("record_distraction", [work_id |-> work_id, in |-> in], FALSE)
         /\ UNCHANGED <<store, now, uuid, calls, history>>
    ELSE /\ Loaded(c, "record_distraction", work_id, now, in)
         /\ UNCHANGED <<store, now, uuid, ret>>

\* record_distraction from its append to its return
FinishRecordDistraction(c) ==
    LET call == calls[c]
    IN /\ call.pc = "loaded" /\ call.op = "record_distraction"
       /\ Saved(c, record_distraction(call.data, call.work_id, now, call.in),
                [work_id |-> call.work_id, in |-> call.in], TRUE)

\* the distraction records stored and about to be stored
PendingDistractions ==
    TotalDistractions(store.entries)
        + Cardinality({c \in Callers : calls[c].op = "record_distraction"})

\* list(set): the elements of the set, each once, in an order the build picks
Lists(S) == {s \in [1..Cardinality(S) -> S] : Range(s) = S}

\* the merged refs written to both reference fields of the entry
link_time_both(data, work_id, field, refs) ==
    LET i == FindEntry(data.entries, work_id)
    IN [data EXCEPT !.entries[i].knowledge_refs = refs,
                    !.entries[i].people_refs = refs]

\* entry_dict[field] = list(existing_refs.union(new_refs)), refs being the list
link_time(data, work_id, field, refs) ==
    LET i == FindEntry(data.entries, work_id)
    IN [data EXCEPT !.entries[i][field] = refs]

LinkTime(op, field, work_id, new_refs) ==
    LET i == FindEntry(store.entries, work_id)
        args == [work_id |-> work_id, refs |-> new_refs]
    IN /\ IF i = 0
          THEN /\ ret' = Return(op, args, FALSE)
               /\ UNCHANGED store
          ELSE /\ \E refs \in Lists(Range(store.entries[i][field]) \cup Range(new_refs)) :
                      store' = link_time(store, work_id, field, refs)
               /\ ret' = Return(op, args, TRUE)
       /\ UNCHANGED <<now, uuid, calls, history>>

LinkTimeToKnowledge(work_id, knowledge_refs) ==
    LinkTime("link_time_to_knowledge", "knowledge_refs", work_id, knowledge_refs)

LinkTimeToPeople(work_id, people_refs) ==
    LinkTime("link_time_to_people", "people_refs", work_id, people_refs)

\* get_all_entries(): every entry, projected to the TimeEntry fields
get_all_entries(data) == Map(data.entries, Filtered)

GetAllEntries ==
    /\ ret' = Return("get_all_entries", <<>>, get_all_entries(store))
    /\ UNCHANGED <<store, now, uuid, calls, history>>

----------------------------------------------------------------------------
(* Statistics Engine *)

Completed(e) == e.duration_minutes # None

\* find_similar_work keeping the entries that have no duration
find_similar_work_any_duration(data, work_description, work_type, knowledge_refs) ==
    LET Similar(e) ==
            /\ e.work_type = work_type
            /\ \/ knowledge_refs = <<>>
               \/ Range(e.knowledge_refs) \cap Range(knowledge_refs) # {}
    IN Map(SelectSeq(data.entries, Similar), Filtered)

\* find_similar_work asking for every queried reference on the entry
find_similar_work_subset(data, work_description, work_type, knowledge_refs) ==
    LET Similar(e) ==
            /\ e.duration_minutes # None
            /\ e.work_type = work_type
            /\ Range(knowledge_refs) \subseteq Range(e.knowledge_refs)
    IN Map(SelectSeq(data.entries, Similar), Filtered)

\* find_similar_work preferring the entries whose description is the query's
find_similar_work_by_description(data, work_description, work_type, knowledge_refs) ==
    LET Similar(e) ==
            /\ e.duration_minutes # None
            /\ e.work_type = work_type
            /\ \/ knowledge_refs = <<>>
               \/ Range(e.knowledge_refs) \cap Range(knowledge_refs) # {}
        similar == SelectSeq(data.entries, Similar)
        same == SelectSeq(similar, LAMBDA e : e.work_description = work_description)
    IN Map(IF same # <<>> THEN same ELSE similar, Filtered)

\* the loop of find_similar_work over data["entries"]; work_description is
\* a parameter the loop never reads
find_similar_work(data, work_description, work_type, knowledge_refs) ==
    LET Similar(e) ==
            /\ e.duration_minutes # None
            /\ e.work_type = work_type
            /\ \/ knowledge_refs = <<>>
               \/ Range(e.knowledge_refs) \cap Range(knowledge_refs) # {}
    IN Map(SelectSeq(data.entries, Similar), Filtered)

\* [entry.duration_minutes for entry in entries if it is not None]
Durations(entries) ==
    Map(SelectSeq(entries, Completed), LAMBDA e : The(e.duration_minutes))

\* the sample variance: the squared deviations over N - 1
SampleVariance(durations, mean) ==
    LET sq(d) == RMul(RSub(RInt(d), mean), RSub(RInt(d), mean))
    IN RDiv(SumRat(Map(durations, sq)), RInt(Len(durations) - 1))

\* sum((d - mean) ** 2 for d in durations) / len(durations)
Variance(durations, mean) ==
    LET sq(d) == RMul(RSub(RInt(d), mean), RSub(RInt(d), mean))
    IN RDiv(SumRat(Map(durations, sq)), RInt(Len(durations)))

calculate_statistics(entries) ==
    LET durations == Durations(entries)
        mean == Rat(SumSeq(durations), Len(durations))
    IN IF entries = <<>> \/ durations = <<>>
       THEN [mean |-> RZero, variance |-> RZero]
       ELSE [mean |-> mean,
             variance |-> IF Len(durations) = 1 THEN RZero
                          ELSE Variance(durations, mean)]

----------------------------------------------------------------------------
(* Estimation Engine *)

\* the values the explanation of generate_estimate interpolates
_build_estimate_explanation(similar_work, mean, std_dev, work_type, knowledge_refs) ==
    LET ref(e) == <<e.work_description, e.duration_minutes>>
        shown == IF Len(similar_work) <= 3 THEN similar_work
                 ELSE SubSeq(similar_work, 1, 3)
    IN <<Len(similar_work), work_type, knowledge_refs, mean, std_dev,
         Map(shown, ref),
         IF Len(similar_work) <= 3 THEN 0 ELSE Len(similar_work) - 3>>

EstimateResult(mean_minutes, variance, std_dev, min_estimate, max_estimate, confidence_range, similar_work_count, similar_work_ids, explanation) ==
    [mean_minutes |-> mean_minutes, variance |-> variance, std_dev |-> std_dev,
     min_estimate |-> min_estimate, max_estimate |-> max_estimate,
     confidence_range |-> confidence_range,
     similar_work_count |-> similar_work_count,
     similar_work_ids |-> similar_work_ids, explanation |-> explanation]

\* the estimate computed from a population: mean +- std_dev, clamped at 0
EstimateOf(population, explanation) ==
    LET stats == calculate_statistics(population)
        std_dev == Sqrt(stats.variance)
        min_estimate == Max0(SSub(SRat(stats.mean), std_dev))
        max_estimate == SAdd(SRat(stats.mean), std_dev)
    IN EstimateResult(stats.mean, stats.variance, std_dev, min_estimate,
                      max_estimate, <<min_estimate, max_estimate>>,
                      Len(population), Map(population, LAMBDA e : e.id),
                      explanation)

\* generate_estimate answering an empty history with an estimate of zero
generate_estimate_of_zero(data, work_description, work_type, knowledge_refs) ==
    LET similar_work == find_similar_work(data, work_description, work_type, knowledge_refs)
        stats == calculate_statistics(similar_work)
    IN Some(EstimateOf(similar_work,
               _build_estimate_explanation(similar_work, stats.mean,
                   Sqrt(stats.variance), work_type, knowledge_refs)))

generate_estimate(data, work_description, work_type, knowledge_refs) ==
    LET similar_work == find_similar_work(data, work_description, work_type, knowledge_refs)
        stats == calculate_statistics(similar_work)
    IN IF similar_work = <<>> THEN None
       ELSE Some(EstimateOf(similar_work,
                    _build_estimate_explanation(similar_work, stats.mean,
                        Sqrt(stats.variance), work_type, knowledge_refs)))

\* sum(e["duration_minutes"] for e in entries) / len(entries), 0.0 when empty
Average(entries) ==
    IF entries = <<>> THEN RZero
    ELSE Rat(SumSeq(Durations(entries)), Len(entries))

\* calculate_distraction_impact over the entries of every work_type
calculate_distraction_impact_any_type(data, work_type) ==
    LET entries ==
            SelectSeq(data.entries,
                      LAMBDA e : e.duration_minutes # None)
        with_distractions == SelectSeq(entries, LAMBDA e : e.distractions # <<>>)
        without_distractions == SelectSeq(entries, LAMBDA e : e.distractions = <<>>)
        avg_with == Average(with_distractions)
        avg_without == Average(without_distractions)
        overhead_minutes == RSub(avg_with, avg_without)
    IN [average_duration_with_distractions |-> avg_with,
        average_duration_without_distractions |-> avg_without,
        average_distraction_overhead_minutes |-> overhead_minutes,
        average_distraction_overhead_percentage |->
            IF RLt(RZero, avg_without)
            THEN RMul(RDiv(overhead_minutes, avg_without), RInt(100))
            ELSE RZero,
        total_distraction_time |->
            SumSeq(Map(with_distractions,
                       LAMBDA e : SumSeq(Map(e.distractions,
                                             LAMBDA d : d.duration_minutes)))),
        entries_with_distractions |-> Len(with_distractions),
        entries_without_distractions |-> Len(without_distractions)]

\* work_type is None (all types) or Some(type)
calculate_distraction_impact(data, work_type) ==
    LET entries ==
            SelectSeq(data.entries,
                      LAMBDA e : /\ e.duration_minutes # None
                                 /\ work_type # None => e.work_type = The(work_type))
        with_distractions == SelectSeq(entries, LAMBDA e : e.distractions # <<>>)
        without_distractions == SelectSeq(entries, LAMBDA e : e.distractions = <<>>)
        avg_with == Average(with_distractions)
        avg_without == Average(without_distractions)
        overhead_minutes == RSub(avg_with, avg_without)
    IN [average_duration_with_distractions |-> avg_with,
        average_duration_without_distractions |-> avg_without,
        average_distraction_overhead_minutes |-> overhead_minutes,
        average_distraction_overhead_percentage |->
            IF RLt(RZero, avg_without)
            THEN RMul(RDiv(overhead_minutes, avg_without), RInt(100))
            ELSE RZero,
        total_distraction_time |->
            SumSeq(Map(with_distractions,
                       LAMBDA e : SumSeq(Map(e.distractions,
                                             LAMBDA d : d.duration_minutes)))),
        entries_with_distractions |-> Len(with_distractions),
        entries_without_distractions |-> Len(without_distractions)]

\* the base estimate with only its mean multiplied by factor
ScaledMean(base_estimate, factor, explanation) ==
    EstimateResult(RMul(base_estimate.mean_minutes, factor),
                   base_estimate.variance, base_estimate.std_dev,
                   base_estimate.min_estimate, base_estimate.max_estimate,
                   base_estimate.confidence_range,
                   base_estimate.similar_work_count,
                   base_estimate.similar_work_ids, explanation)

\* the base estimate with mean, min and max multiplied by factor
Scaled(base_estimate, factor, explanation) ==
    LET adjusted_min == SScale(factor, base_estimate.min_estimate)
        adjusted_max == SScale(factor, base_estimate.max_estimate)
    IN EstimateResult(RMul(base_estimate.mean_minutes, factor),
                      base_estimate.variance, base_estimate.std_dev,
                      adjusted_min, adjusted_max, <<adjusted_min, adjusted_max>>,
                      base_estimate.similar_work_count,
                      base_estimate.similar_work_ids, explanation)

\* 1 + overhead_percentage / 100
OverheadFactor(impact) ==
    RAdd(RInt(1), RDiv(impact.average_distraction_overhead_percentage, RInt(100)))

\* the distraction generator scaling also without any distracted entry
generate_estimate_with_distraction_overhead_always(data, work_description, work_type, knowledge_refs) ==
    LET base == generate_estimate(data, work_description, work_type, knowledge_refs)
        base_estimate == The(base)
        impact == calculate_distraction_impact(data, Some(work_type))
    IN IF base = None THEN None
       ELSE IF impact.entries_with_distractions >= 0
       THEN Some(Scaled(base_estimate, OverheadFactor(impact),
                        base_estimate.explanation \o
                        <<impact.average_distraction_overhead_percentage,
                          impact.average_distraction_overhead_minutes,
                          impact.entries_with_distractions>>))
       ELSE base

generate_estimate_with_distraction_overhead(data, work_description, work_type, knowledge_refs) ==
    LET base == generate_estimate(data, work_description, work_type, knowledge_refs)
        base_estimate == The(base)
        impact == calculate_distraction_impact(data, Some(work_type))
    IN IF base = None THEN None
       ELSE IF impact.entries_with_distractions > 0
       THEN Some(Scaled(base_estimate, OverheadFactor(impact),
                        base_estimate.explanation \o
                        <<impact.average_distraction_overhead_percentage,
                          impact.average_distraction_overhead_minutes,
                          impact.entries_with_distractions>>))
       ELSE base

get_entries_by_knowledge(data, knowledge_ref) ==
    Map(SelectSeq(data.entries, LAMBDA e : knowledge_ref \in Range(e.knowledge_refs)),
        Filtered)

WorkItem(e) ==
    [id |-> e.id, description |-> e.work_description,
     duration_minutes |-> The(e.duration_minutes), work_type |-> e.work_type,
     start_time |-> e.start_time]

get_knowledge_time_investment(data, knowledge_ref) ==
    LET completed_entries ==
            SelectSeq(get_entries_by_knowledge(data, knowledge_ref), Completed)
        total_minutes == SumSeq(Durations(completed_entries))
    IN [knowledge_ref |-> knowledge_ref,
        total_minutes |-> total_minutes,
        work_item_count |-> Len(completed_entries),
        average_duration |->
            IF completed_entries = <<>> THEN RZero
            ELSE Rat(total_minutes, Len(completed_entries)),
        work_items |-> Map(completed_entries, WorkItem)]

\* the tiers with each boundary counted to the tier below it
ExperienceTierInclusive(total_experience_minutes) ==
    IF total_experience_minutes <= 120
    THEN [experience_level |-> "novice", adjustment_factor |-> Rat(12, 10)]
    ELSE IF total_experience_minutes <= 480
    THEN [experience_level |-> "intermediate", adjustment_factor |-> Rat(10, 10)]
    ELSE IF total_experience_minutes <= 1200
    THEN [experience_level |-> "experienced", adjustment_factor |-> Rat(85, 100)]
    ELSE [experience_level |-> "expert", adjustment_factor |-> Rat(7, 10)]

\* the experience tier of a number of minutes: its name and its multiplier
ExperienceTier(total_experience_minutes) ==
    IF total_experience_minutes < 120
    THEN [experience_level |-> "novice", adjustment_factor |-> Rat(12, 10)]
    ELSE IF total_experience_minutes < 480
    THEN [experience_level |-> "intermediate", adjustment_factor |-> Rat(10, 10)]
    ELSE IF total_experience_minutes < 1200
    THEN [experience_level |-> "experienced", adjustment_factor |-> Rat(85, 100)]
    ELSE [experience_level |-> "expert", adjustment_factor |-> Rat(7, 10)]

generate_experience_adjusted_estimate(data, work_description, work_type, knowledge_refs) ==
    LET base == generate_estimate(data, work_description, work_type, knowledge_refs)
        base_estimate == The(base)
        experience_areas ==
            Map(knowledge_refs,
                LAMBDA k : LET investment == get_knowledge_time_investment(data, k)
                           IN [knowledge_ref |-> k,
                               minutes |-> investment.total_minutes,
                               work_items |-> investment.work_item_count])
        total_experience_minutes ==
            SumSeq(Map(experience_areas, LAMBDA a : a.minutes))
        tier == ExperienceTier(total_experience_minutes)
    IN IF base = None THEN None
       ELSE IF knowledge_refs = <<>> THEN base
       ELSE Some(Scaled(base_estimate, tier.adjustment_factor,
                        base_estimate.explanation \o
                        <<tier.experience_level, total_experience_minutes,
                          Len(knowledge_refs), tier.adjustment_factor,
                          experience_areas>>))

\* the collaborative population: completed, same work_type, a person in common
CollaborativeWork(data, work_type, people_refs) ==
    Map(SelectSeq(data.entries,
                  LAMBDA e : /\ e.duration_minutes # None
                             /\ e.work_type = work_type
                             /\ Range(e.people_refs) \cap Range(people_refs) # {}),
        Filtered)

\* [val |-> None or Some(estimate), exc |-> the exception raised, or None]
generate_collaboration_adjusted_estimate(data, work_description, work_type, people_refs, knowledge_refs) ==
    LET base == generate_estimate(data, work_description, work_type, knowledge_refs)
        base_estimate == The(base)
        similar_collaborative_work == CollaborativeWork(data, work_type, people_refs)
        collab == calculate_statistics(similar_collaborative_work)
        \* (collab_mean - base_estimate.mean_minutes) / base_estimate.mean_minutes * 100
        difference ==
            RMul(RDiv(RSub(collab.mean, base_estimate.mean_minutes),
                      base_estimate.mean_minutes), RInt(100))
    IN IF base = None THEN [val |-> None, exc |-> None]
       ELSE IF people_refs = <<>> THEN [val |-> base, exc |-> None]
       ELSE IF similar_collaborative_work # <<>> /\ RLt(RZero, collab.mean)
       THEN IF base_estimate.mean_minutes = RZero
            THEN \* the explanation divides by the base mean
                 [val |-> None, exc |-> Some("ZeroDivisionError")]
            ELSE [val |-> Some(EstimateOf(similar_collaborative_work,
                                  <<Len(similar_collaborative_work), work_type,
                                    people_refs, collab.mean, Sqrt(collab.variance),
                                    difference,
                                    RLt(base_estimate.mean_minutes, collab.mean)>>)),
                  exc |-> None]
       ELSE [val |-> base, exc |-> None]

----------------------------------------------------------------------------
(* Analytics over completed entries *)

\* the elements of s, each once, in order of first occurrence (dict keys)
RECURSIVE FirstSeen(_)
FirstSeen(s) ==
    IF s = <<>> THEN <<>>
    ELSE LET rest == FirstSeen(SubSeq(s, 1, Len(s) - 1))
             last == s[Len(s)]
         IN IF last \in Range(rest) THEN rest ELSE Append(rest, last)

\* s1 \o s2 \o ... for a sequence of sequences
RECURSIVE Flatten(_)
Flatten(ss) == IF ss = <<>> THEN <<>> ELSE Head(ss) \o Flatten(Tail(ss))

\* list.sort(key=total_minutes, reverse=True): descending, ties keep their order
InsertByTotal(sorted, x) ==
    LET before == SelectSeq(sorted, LAMBDA y : y.total_minutes >= x.total_minutes)
        after == SelectSeq(sorted, LAMBDA y : y.total_minutes < x.total_minutes)
    IN before \o <<x>> \o after

RECURSIVE SortByTotal(_)
SortByTotal(s) ==
    IF s = <<>> THEN <<>>
    ELSE InsertByTotal(SortByTotal(SubSeq(s, 1, Len(s) - 1)), s[Len(s)])

Ranked(s) ==
    [i \in 1..Len(s) |->
        [ref |-> s[i].ref, total_minutes |-> s[i].total_minutes,
         work_item_count |-> s[i].work_item_count, rank |-> i]]

\* per reference, the durations of the completed entries, once per occurrence
\* of the reference in the entry's list; refs(e) is the list scanned
TimeByRef(entries, refs(_)) ==
    LET occurrences ==
            Flatten(Map(entries,
                        LAMBDA e : Map(refs(e),
                                       LAMBDA r : [ref |-> r,
                                                   minutes |-> The(e.duration_minutes)])))
        keys == FirstSeen(Map(occurrences, LAMBDA o : o.ref))
        of(r) == SelectSeq(occurrences, LAMBDA o : o.ref = r)
    IN Map(keys, LAMBDA r : [ref |-> r,
                             total_minutes |-> SumSeq(Map(of(r), LAMBDA o : o.minutes)),
                             work_item_count |-> Len(of(r))])

rank_expertise_by_time(data, min_minutes) ==
    LET knowledge_time ==
            TimeByRef(SelectSeq(data.entries, Completed), LAMBDA e : e.knowledge_refs)
        filtered_areas ==
            SelectSeq(knowledge_time, LAMBDA area : area.total_minutes >= min_minutes)
    IN Ranked(SortByTotal(filtered_areas))

\* the clock's 0 is a Monday 00:00 UTC that is the first day of a month of 30
\* days, and the instants of the model stay in that month and the next, in
\* one year
SecondsPerDay == 24 * 60 * 60

\* strftime("%Y-%m-%d"), ("%Y-W%W"), ("%Y-%m"): the day, the week (from
\* Monday) or the month of t, as its number; the fields of the text are
\* zero-padded, so the order of the texts is the order of the numbers
PeriodKey(t, group_by) ==
    LET day == t \div SecondsPerDay
    IN CASE group_by = "day" -> day
         [] group_by = "month" -> (IF day < 30 THEN 0 ELSE 1)
         [] OTHER -> day \div 7

\* sorted(keys)
RECURSIVE SortedKeys(_)
SortedKeys(keys) ==
    IF keys = {} THEN <<>>
    ELSE LET least == CHOOSE k \in keys : \A other \in keys : k <= other
         IN <<least>> \o SortedKeys(keys \ {least})

\* the float literals 1.2 and 0.8
Float1_2 == FDiv(6, 5)
Float0_8 == FDiv(4, 5)

\* the trend of the minutes of the sorted periods
TrendDirection(minutes) ==
    LET n == Len(minutes)
        midpoint == n \div 2
        first_half_avg == FDiv(SumSeq(SubSeq(minutes, 1, midpoint)), midpoint)
        second_half_avg == FDiv(SumSeq(SubSeq(minutes, midpoint + 1, n)), n - midpoint)
    IN IF n < 2 THEN "stable"
       ELSE IF FLt(FMul(first_half_avg, Float1_2), second_half_avg) THEN "increasing"
       ELSE IF FLt(second_half_avg, FMul(first_half_avg, Float0_8)) THEN "decreasing"
       ELSE "stable"

get_time_trends_by_knowledge(data, t, knowledge_ref, days, group_by) ==
    LET cutoff_date == t - days * SecondsPerDay
        filtered_entries ==
            SelectSeq(data.entries,
                      LAMBDA e : /\ e.duration_minutes # None
                                 /\ e.start_time # None =>
                                        fromisoformat(e.start_time) >= cutoff_date
                                 /\ knowledge_ref # None =>
                                        The(knowledge_ref) \in Range(e.knowledge_refs))
        key(e) == PeriodKey(fromisoformat(e.start_time), group_by)
        period_data(k) ==
            SumSeq(Durations(SelectSeq(filtered_entries, LAMBDA e : key(e) = k)))
        sorted_periods ==
            SortedKeys({key(filtered_entries[i]) : i \in 1..Len(filtered_entries)})
        minutes == [i \in 1..Len(sorted_periods) |-> period_data(sorted_periods[i])]
    IN [knowledge_ref |-> IF knowledge_ref = None THEN "all" ELSE The(knowledge_ref),
        period_data |-> [i \in 1..Len(sorted_periods) |->
                            [period |-> sorted_periods[i], minutes |-> minutes[i]]],
        total_minutes |-> SumSeq(minutes),
        trend_direction |-> TrendDirection(minutes),
        days_analyzed |-> days,
        group_by |-> group_by]

\* days is None: every entry is analysed
identify_collaboration_patterns(data) ==
    LET entries == SelectSeq(data.entries, Completed)
        collaborative == SelectSeq(entries, LAMBDA e : e.people_refs # <<>>)
        solo == SelectSeq(entries, LAMBDA e : e.people_refs = <<>>)
        total_collaboration_time == SumSeq(Durations(collaborative))
        total_solo_time == SumSeq(Durations(solo))
        total_time == total_collaboration_time + total_solo_time
        work_types == FirstSeen(Map(collaborative, LAMBDA e : e.work_type))
    IN [frequent_collaborators |->
            Ranked(SortByTotal(TimeByRef(collaborative, LAMBDA e : e.people_refs))),
        collaboration_by_work_type |->
            Map(work_types,
                LAMBDA w : [work_type |-> w,
                            minutes |-> SumSeq(Durations(SelectSeq(collaborative,
                                            LAMBDA e : e.work_type = w)))]),
        total_collaboration_time |-> total_collaboration_time,
        solo_work_time |-> total_solo_time,
        collaboration_percentage |->
            IF total_time > 0
            THEN RMul(Rat(total_collaboration_time, total_time), RInt(100))
            ELSE RZero,
        days_analyzed |-> None]

EstimationAccuracy(total_estimates, accurate_estimates, overestimates, underestimates, average_error_percentage, common_deviation_patterns) ==
    [total_estimates |-> total_estimates,
     accurate_estimates |-> accurate_estimates,
     overestimates |-> overestimates, underestimates |-> underestimates,
     average_error_percentage |-> average_error_percentage,
     common_deviation_patterns |-> common_deviation_patterns]

\* prior_entries = completed_entries[:i], and those of the work type of the
\* i-th entry among them
PriorSimilarWork(completed_entries, i) ==
    SelectSeq(SubSeq(completed_entries, 1, i - 1),
              LAMBDA e : e.work_type = completed_entries[i].work_type)

\* the i-th completed entry replayed against the same-type entries before it
Replay(completed_entries, i) ==
    LET entry == completed_entries[i]
        similar_work == PriorSimilarWork(completed_entries, i)
        mean == calculate_statistics(similar_work).mean
        actual == The(entry.duration_minutes)
    IN [estimated |-> (similar_work # <<>> /\ mean # RZero),
        work_type |-> entry.work_type, mean |-> mean, actual |-> actual]

\* abs(actual - estimated) / actual * 100, for actual # 0
ErrorPercentage(r) ==
    LET diff == RSub(RInt(r.actual), r.mean)
    IN RMul(RDiv(IF RLt(diff, RZero) THEN RSub(RZero, diff) ELSE diff,
                 RInt(r.actual)), RInt(100))

DeviationType(r, tolerance_percentage) ==
    IF RLe(ErrorPercentage(r), RInt(tolerance_percentage)) THEN "accurate"
    ELSE IF RLt(RInt(r.actual), r.mean) THEN "overestimate"
    ELSE "underestimate"

_identify_common_patterns(deviation_patterns) ==
    LET keys == FirstSeen(Map(deviation_patterns,
                              LAMBDA p : <<p.work_type, p.type>>))
        of(k) == SelectSeq(deviation_patterns,
                           LAMBDA p : <<p.work_type, p.type>> = k)
        groups == Map(keys,
                      LAMBDA k : [work_type |-> k[1], deviation_type |-> k[2],
                                  total_minutes |-> Len(of(k)),
                                  average_error_percentage |->
                                      RDiv(SumRat(Map(of(k), LAMBDA p : p.error_percentage)),
                                           RInt(Len(of(k))))])
        common == SortByTotal(SelectSeq(groups, LAMBDA g : g.total_minutes >= 2))
    IN Map(common,
           LAMBDA g : [work_type |-> g.work_type, deviation_type |-> g.deviation_type,
                       occurrence_count |-> g.total_minutes,
                       average_error_percentage |-> g.average_error_percentage])

\* [val |-> the EstimationAccuracy, exc |-> the exception raised, or None]
analyze_estimation_accuracy(data, tolerance_percentage) ==
    LET stored == SelectSeq(data.entries, Completed)
        completed_entries == Map(stored, Filtered)
        replays == [i \in 1..Len(completed_entries) |-> Replay(completed_entries, i)]
        estimates == SelectSeq(replays, LAMBDA r : r.estimated)
        kind(r) == DeviationType(r, tolerance_percentage)
        error_percentages == Map(estimates, ErrorPercentage)
        deviation_patterns ==
            Map(SelectSeq(estimates, LAMBDA r : kind(r) # "accurate"),
                LAMBDA r : [type |-> kind(r), work_type |-> r.work_type,
                            estimated |-> r.mean, actual |-> r.actual,
                            error_percentage |-> ErrorPercentage(r)])
        count(k) == Len(SelectSeq(estimates, LAMBDA r : kind(r) = k))
    IN IF \E i \in 1..Len(stored) : HasExtraKeys(stored[i])
       THEN \* the TimeEntry constructor rejects the keys of a planned entry
            [val |-> None, exc |-> Some("TypeError")]
       ELSE IF Len(completed_entries) < 2
       THEN [val |-> Some(EstimationAccuracy(0, 0, 0, 0, RZero, <<>>)), exc |-> None]
       ELSE IF \E i \in 1..Len(estimates) : estimates[i].actual = 0
       THEN \* abs(actual - estimated) / actual with actual = 0
            [val |-> None, exc |-> Some("ZeroDivisionError")]
       ELSE [val |-> Some(EstimationAccuracy(
                        Len(estimates), count("accurate"), count("overestimate"),
                        count("underestimate"),
                        IF error_percentages = <<>> THEN RZero
                        ELSE RDiv(SumRat(error_percentages),
                                  RInt(Len(error_percentages))),
                        _identify_common_patterns(deviation_patterns))),
             exc |-> None]

----------------------------------------------------------------------------
(* Complexity & Breakdown Engine *)

action_verbs ==
    {"implement", "create", "build", "design", "develop", "write", "test",
     "deploy", "configure", "setup", "integrate", "refactor", "update",
     "modify", "add", "remove", "fix", "debug"}
conjunctions == {"and", "then", "also", "plus", "along with", "as well as"}
scope_words == {"complete", "full", "entire", "comprehensive", "end-to-end", "all"}

\* sum(1 for w in words if w in description_lower)
Hits(words, description_lower) ==
    Cardinality({w \in words : Contains(description_lower, w)})

\* the score and the indicator of one of the four tests of analyze_complexity
LengthPart(work_description) ==
    IF Len(work_description) > 100
    THEN [score |-> 2, indicators |-> <<"Long description suggests multiple components">>]
    ELSE IF Len(work_description) > 50
    THEN [score |-> 1, indicators |-> <<"Moderate description length">>]
    ELSE [score |-> 0, indicators |-> <<>>]

VerbPart(description_lower) ==
    LET verb_count == Hits(action_verbs, description_lower)
    IN IF verb_count >= 3
       THEN [score |-> 2, indicators |->
                <<"Multiple action verbs (" \o ToString(verb_count)
                  \o ") suggest multiple tasks">>]
       ELSE IF verb_count >= 2
       THEN [score |-> 1, indicators |->
                <<"Multiple actions (" \o ToString(verb_count) \o ") detected">>]
       ELSE [score |-> 0, indicators |-> <<>>]

ConjunctionPart(description_lower) ==
    LET conjunction_count == Hits(conjunctions, description_lower)
    IN IF conjunction_count >= 2
       THEN [score |-> 2, indicators |->
                <<"Multiple conjunctions (" \o ToString(conjunction_count)
                  \o ") suggest compound work">>]
       ELSE IF conjunction_count >= 1
       THEN [score |-> 1, indicators |-> <<"Conjunctions suggest multiple components">>]
       ELSE [score |-> 0, indicators |-> <<>>]

ScopePart(description_lower) ==
    LET scope_count == Hits(scope_words, description_lower)
    IN IF scope_count >= 2
       THEN [score |-> 2, indicators |-> <<"Broad scope indicators detected">>]
       ELSE IF scope_count >= 1
       THEN [score |-> 1, indicators |-> <<"Scope indicator suggests larger work item">>]
       ELSE [score |-> 0, indicators |-> <<>>]

\* the levels with "high" only above 5
ComplexityLevelStrict(complexity_score) ==
    IF complexity_score > 5 THEN "high"
    ELSE IF complexity_score >= 3 THEN "medium"
    ELSE "low"

ComplexityLevel(complexity_score) ==
    IF complexity_score >= 5 THEN "high"
    ELSE IF complexity_score >= 3 THEN "medium"
    ELSE "low"

analyze_complexity(work_description) ==
    LET description_lower == Lower(work_description)
        parts == <<LengthPart(work_description), VerbPart(description_lower),
                   ConjunctionPart(description_lower), ScopePart(description_lower)>>
        complexity_score ==
            parts[1].score + parts[2].score + parts[3].score + parts[4].score
        level == ComplexityLevel(complexity_score)
    IN [complexity_score |-> complexity_score,
        complexity_level |-> level,
        indicators |-> parts[1].indicators \o parts[2].indicators
                       \o parts[3].indicators \o parts[4].indicators,
        recommendation |->
            CASE level = "high" -> "Strong candidate for breakdown into smaller chunks"
              [] level = "medium" -> "Consider breaking down into 2-3 chunks"
              [] OTHER -> "Appears to be a single, focused work item"]

\* t, filled up to n characters with characters that belong to no keyword
RECURSIVE PadTo(_, _)
PadTo(t, n) == IF Len(t) >= n THEN t ELSE PadTo(t \o ".", n)

\* descriptions with 0 to 4 action verbs, 0 to 3 conjunctions and 0 to 3
\* scope words, filled up to 50, 51, 100 and 101 characters
ComplexityInputs ==
    { PadTo(v \o c \o w, n) :
        v \in {"", "Fix ", "Fix update ", "Fix update test ", "Fix update test deploy "},
        c \in {"", "and ", "and then ", "and then also "},
        w \in {"", "full", "full entire", "full entire all"},
        n \in {50, 51, 100, 101} }

\* analyze_complexity of each description a caller passes, computed once
DescriptionInputs == {in.description : in \in BreakdownInputs \cup GatingInputs}
Complexity == [d \in DescriptionInputs |-> analyze_complexity(d)]

\* heuristics.get(chunk_type, 60)
Heuristic(chunk_type) ==
    CASE chunk_type = "design" -> 60 [] chunk_type = "implement" -> 120
      [] chunk_type = "test" -> 60 [] chunk_type = "document" -> 30
      [] chunk_type = "research" -> 45 [] chunk_type = "draft" -> 90
      [] chunk_type = "edit" -> 30 [] chunk_type = "prepare" -> 20
      [] chunk_type = "attend" -> 60 [] chunk_type = "followup" -> 30
      [] chunk_type = "generic" -> 60 [] OTHER -> 60

_estimate_chunk(data, chunk_type, work_type, knowledge_refs) ==
    LET similar_work == find_similar_work(data, chunk_type, work_type, knowledge_refs)
        mean == calculate_statistics(similar_work).mean
    IN IF similar_work # <<>> /\ RLt(RZero, mean)
       THEN mean
       ELSE RInt(Heuristic(chunk_type))

WorkChunk(id, description, estimated_minutes, work_type, knowledge_refs, dependencies) ==
    [id |-> id, description |-> description,
     estimated_minutes |-> estimated_minutes, work_type |-> work_type,
     knowledge_refs |-> knowledge_refs, dependencies |-> dependencies]

ChunkId(n) == "chunk_" \o ToString(n)

\* any(word in description_lower for word in words)
AnyWord(words, description_lower) == \E w \in words : Contains(description_lower, w)

\* the chunks with every later chunk depending on the first one
ChunksOfStar(data, in, phases) ==
    [i \in 1..Len(phases) |->
        WorkChunk(ChunkId(i), phases[i].prefix \o in.description,
                  _estimate_chunk(data, phases[i].chunk_type, in.work_type,
                                  in.knowledge_refs),
                  phases[i].work_type, in.knowledge_refs,
                  IF i > 1 THEN <<ChunkId(1)>> ELSE <<>>)]

\* chunks.append(WorkChunk(id=f"chunk_{len(chunks) + 1}", ...,
\*                         dependencies=[chunks[-1].id] if chunks else []))
\* for each phase in turn: [prefix, chunk_type, work_type]
ChunksOf(data, in, phases) ==
    [i \in 1..Len(phases) |->
        WorkChunk(ChunkId(i), phases[i].prefix \o in.description,
                  _estimate_chunk(data, phases[i].chunk_type, in.work_type,
                                  in.knowledge_refs),
                  phases[i].work_type, in.knowledge_refs,
                  IF i > 1 THEN <<ChunkId(i - 1)>> ELSE <<>>)]

\* the keyword tests of the technical generator, per description, computed once
PhaseWords ==
    [d \in DescriptionInputs |->
        [design |-> AnyWord({"design", "architecture", "plan", "spec"}, Lower(d)),
         implement |-> AnyWord({"implement", "build", "create", "develop", "code"}, Lower(d)),
         test |-> AnyWord({"test", "verify", "validate"}, Lower(d)),
         document |-> AnyWord({"document", "doc", "write"}, Lower(d))]]

TechnicalChunks(data, in, complexity) ==
    LET words == PhaseWords[in.description]
        high == complexity.complexity_level = "high"
        phases ==
            <<[prefix |-> "Design and plan: ", chunk_type |-> "design",
               work_type |-> in.work_type, taken |-> words.design],
              [prefix |-> "Implement core functionality: ", chunk_type |-> "implement",
               work_type |-> in.work_type, taken |-> words.implement],
              [prefix |-> "Test and validate: ", chunk_type |-> "test",
               work_type |-> in.work_type, taken |-> words.test \/ high],
              [prefix |-> "Document: ", chunk_type |-> "document",
               work_type |-> "writing", taken |-> words.document \/ high]>>
    IN ChunksOf(data, in, SelectSeq(phases, LAMBDA p : p.taken))

\* the three fixed phases of the writing and the meeting generators
FixedChunks(data, in, prefixes, chunk_types) ==
    ChunksOf(data, in,
             [i \in 1..3 |-> [prefix |-> prefixes[i], chunk_type |-> chunk_types[i],
                              work_type |-> in.work_type]])

GenericChunks(data, in, complexity) ==
    LET phase_count == IF complexity.complexity_level = "high" THEN 4 ELSE 2
    IN ChunksOf(data, in,
                [k \in 1..phase_count |->
                    [prefix |-> "Phase " \o ToString(k) \o ": ",
                     chunk_type |-> "generic", work_type |-> in.work_type]])

_generate_chunks_by_type(data, in, complexity) ==
    CASE in.work_type = "technical" -> TechnicalChunks(data, in, complexity)
      [] in.work_type = "writing" ->
            FixedChunks(data, in,
                        <<"Research and outline: ", "Write first draft: ", "Review and edit: ">>,
                        <<"research", "draft", "edit">>)
      [] in.work_type = "meeting" ->
            FixedChunks(data, in,
                        <<"Prepare for: ", "Attend: ", "Follow-up actions: ">>,
                        <<"prepare", "attend", "followup">>)
      [] OTHER -> GenericChunks(data, in, complexity)

WorkBreakdown(original_work, estimated_total, chunks, breakdown_id, created_at) ==
    [original_work |-> original_work, estimated_total |-> estimated_total,
     chunks |-> chunks, breakdown_id |-> breakdown_id,
     created_at |-> created_at, completed_chunks |-> <<>>]

\* None, or the WorkBreakdown with the id drawn from uuid n at time t
suggest_breakdown(data, n, t, in) ==
    LET complexity == Complexity[in.description]
        chunks == _generate_chunks_by_type(data, in, complexity)
    IN IF complexity.complexity_level = "low" THEN None
       ELSE IF chunks = <<>> THEN None
       ELSE Some(WorkBreakdown(in.description,
                               SumRat(Map(chunks, LAMBDA c : c.estimated_minutes)),
                               chunks, BreakdownId(n), isoformat(t)))

SuggestBreakdown(in) ==
    LET b == suggest_breakdown(store, uuid.breakdown + 1, now, in)
    IN /\ b # None => uuid.breakdown < MaxBreakdowns
       /\ uuid' = IF b = None THEN uuid ELSE [uuid EXCEPT !.breakdown = @ + 1]
       /\ ret' = Return("suggest_breakdown", in, b)
       /\ UNCHANGED <<store, now, calls, history>>

\* the planned entry accept_breakdown creates for one chunk
PlannedEntry(work_id, breakdown, chunk) ==
    [TimeEntry(work_id, None, None, None, chunk.description, chunk.work_type,
               chunk.knowledge_refs, <<>>, <<>>, None,
               "Part of breakdown: " \o breakdown.breakdown_id)
     EXCEPT !.breakdown_id = Some(breakdown.breakdown_id),
            !.chunk_id = Some(chunk.id),
            !.estimated_minutes = Some(chunk.estimated_minutes)]

\* the ids of the entries accept_breakdown creates, the first from uuid n + 1
AcceptedIds(breakdown, n) == [k \in 1..Len(breakdown.chunks) |-> WorkId(n + k)]

\* accept_breakdown planning the chunks last to first
accept_breakdown_reversed(data, breakdown, n) ==
    [entries |-> data.entries \o
                 [k \in 1..Len(breakdown.chunks) |->
                     PlannedEntry(WorkId(n + k), breakdown,
                                  breakdown.chunks[Len(breakdown.chunks) + 1 - k])],
     breakdowns |-> Append(data.breakdowns, breakdown)]

accept_breakdown(data, breakdown, n) ==
    [entries |-> data.entries \o
                 [k \in 1..Len(breakdown.chunks) |->
                     PlannedEntry(WorkId(n + k), breakdown, breakdown.chunks[k])],
     breakdowns |-> Append(data.breakdowns, breakdown)]

\* the caller accepts the breakdown suggest_breakdown has just returned
AcceptBreakdown ==
    /\ ret.op = "suggest_breakdown" /\ ret.val # None
    /\ LET breakdown == The(ret.val)
       IN /\ store' = accept_breakdown(store, breakdown, uuid.time)
          /\ uuid' = [uuid EXCEPT !.time = @ + Len(breakdown.chunks)]
          /\ ret' = Return("accept_breakdown", breakdown,
                           AcceptedIds(breakdown, uuid.time))
    /\ UNCHANGED <<now, calls, history>>

\* for bd in data.get("breakdowns", []): if bd["breakdown_id"] == breakdown_id
FindBreakdown(breakdowns, breakdown_id) ==
    IF \E i \in 1..Len(breakdowns) : breakdowns[i].breakdown_id = breakdown_id
    THEN CHOOSE i \in 1..Len(breakdowns) :
            /\ breakdowns[i].breakdown_id = breakdown_id
            /\ \A j \in 1..(i - 1) : breakdowns[j].breakdown_id # breakdown_id
    ELSE 0

BreakdownEntries(data, breakdown_id) ==
    SelectSeq(data.entries, LAMBDA e : e.breakdown_id = Some(breakdown_id))

get_breakdown_progress(data, breakdown_id) ==
    LET i == FindBreakdown(data.breakdowns, breakdown_id)
        bd == data.breakdowns[i]
        breakdown_entries == BreakdownEntries(data, breakdown_id)
        total_chunks == Len(bd.chunks)
        completed_chunks == Len(SelectSeq(breakdown_entries, Completed))
        total_actual == RInt(SumSeq(Durations(breakdown_entries)))
        remaining == RSub(bd.estimated_total, total_actual)
    IN IF i = 0 THEN None
       ELSE Some([breakdown_id |-> breakdown_id,
                  original_work |-> bd.original_work,
                  total_chunks |-> total_chunks,
                  completed_chunks |-> completed_chunks,
                  progress_percentage |->
                      IF total_chunks > 0
                      THEN Rat(completed_chunks * 100, total_chunks) ELSE RZero,
                  estimated_total_minutes |-> bd.estimated_total,
                  actual_total_minutes |-> total_actual,
                  remaining_estimated_minutes |->
                      IF RLe(RZero, remaining) THEN remaining ELSE RZero,
                  variance_minutes |->
                      IF completed_chunks = total_chunks
                      THEN Some(RSub(total_actual, bd.estimated_total)) ELSE None])

GetBreakdownProgress(breakdown_id) ==
    /\ ret' = Return("get_breakdown_progress", <<breakdown_id>>,
                     get_breakdown_progress(store, breakdown_id))
    /\ UNCHANGED <<store, now, uuid, calls, history>>

\* one element of chunk_results, for a chunk that has an entry
ChunkResult(chunk, chunk_entry) ==
    LET actual_minutes == chunk_entry.duration_minutes
        \* "if actual_minutes": neither None nor 0
        truthy == actual_minutes # None /\ The(actual_minutes) # 0
        diff == RSub(RInt(The(actual_minutes)), chunk.estimated_minutes)
    IN [chunk_id |-> chunk.id, description |-> chunk.description,
        estimated_minutes |-> chunk.estimated_minutes,
        actual_minutes |-> actual_minutes,
        variance_minutes |-> IF truthy THEN Some(diff) ELSE None,
        variance_percentage |->
            IF truthy /\ RLt(RZero, chunk.estimated_minutes)
            THEN Some(RMul(RDiv(diff, chunk.estimated_minutes), RInt(100)))
            ELSE None,
        completed |-> actual_minutes # None]

aggregate_breakdown_results(data, breakdown_id) ==
    LET i == FindBreakdown(data.breakdowns, breakdown_id)
        bd == data.breakdowns[i]
        breakdown_entries == BreakdownEntries(data, breakdown_id)
        HasEntry(chunk) ==
            \E k \in 1..Len(breakdown_entries) :
                breakdown_entries[k].chunk_id = Some(chunk.id)
        \* next((e for e in breakdown_entries if e.get("chunk_id") == chunk["id"]), None)
        EntryOf(chunk) ==
            breakdown_entries[CHOOSE k \in 1..Len(breakdown_entries) :
                /\ breakdown_entries[k].chunk_id = Some(chunk.id)
                /\ \A j \in 1..(k - 1) : breakdown_entries[j].chunk_id # Some(chunk.id)]
        chunk_results ==
            Map(SelectSeq(bd.chunks, HasEntry), LAMBDA c : ChunkResult(c, EntryOf(c)))
        total_estimated == SumRat(Map(bd.chunks, LAMBDA c : c.estimated_minutes))
        total_actual ==
            RInt(SumSeq(Map(SelectSeq(chunk_results, LAMBDA r : r.actual_minutes # None),
                            LAMBDA r : The(r.actual_minutes))))
        completed_count == Len(SelectSeq(chunk_results, LAMBDA r : r.completed))
    IN IF i = 0 THEN None
       ELSE Some([breakdown_id |-> breakdown_id,
                  original_work |-> bd.original_work,
                  total_chunks |-> Len(bd.chunks),
                  completed_chunks |-> completed_count,
                  chunk_results |-> chunk_results,
                  total_estimated_minutes |-> total_estimated,
                  total_actual_minutes |-> total_actual,
                  total_variance_minutes |-> RSub(total_actual, total_estimated),
                  total_variance_percentage |->
                      IF RLt(RZero, total_estimated)
                      THEN RMul(RDiv(RSub(total_actual, total_estimated),
                                     total_estimated), RInt(100))
                      ELSE RZero,
                  all_chunks_completed |-> completed_count = Len(bd.chunks)])

AggregateBreakdownResults(breakdown_id) ==
    /\ ret' = Return("aggregate_breakdown_results", <<breakdown_id>>,
                     aggregate_breakdown_results(store, breakdown_id))
    /\ UNCHANGED <<store, now, uuid, calls, history>>

----------------------------------------------------------------------------
(* The store machine: every mutating operation, and the reads of the store *)

----------------------------------------------------------------------------
(* The queries: each leaves the store alone and hands its result back *)

Query(op, args, val) ==
    /\ ret' = Return(op, args, val)
    /\ UNCHANGED <<store, now, uuid, calls, history>>

\* a result [val, exc] of an operation that may raise
QueryOrRaise(op, args, r) ==
    /\ ret' = IF r.exc # None THEN Raise(op, args, The(r.exc))
              ELSE Return(op, args, r.val)
    /\ UNCHANGED <<store, now, uuid, calls, history>>

FindSimilarWork(d, wt, k) ==
    Query("find_similar_work", <<d, wt, k>>, find_similar_work(store, d, wt, k))

\* the caller passes the completed entries at the positions it chose
CalculateStatistics(positions) ==
    LET entries == [i \in 1..Len(store.entries) |-> Filtered(store.entries[i])]
        chosen == {i \in positions : i <= Len(entries)}
        picked == SelectSeq([i \in 1..Len(entries) |->
                                [at |-> i, entry |-> entries[i]]],
                            LAMBDA x : x.at \in chosen)
        list == Map(picked, LAMBDA x : x.entry)
    IN /\ positions \subseteq 1..Len(entries)
       /\ Query("calculate_statistics", <<list>>, calculate_statistics(list))

GenerateEstimate(d, wt, k) ==
    Query("generate_estimate", <<d, wt, k>>, generate_estimate(store, d, wt, k))

GenerateEstimateWithDistractionOverhead(d, wt, k) ==
    Query("generate_estimate_with_distraction_overhead", <<d, wt, k>>,
          generate_estimate_with_distraction_overhead(store, d, wt, k))

GenerateExperienceAdjustedEstimate(d, wt, k) ==
    Query("generate_experience_adjusted_estimate", <<d, wt, k>>,
          generate_experience_adjusted_estimate(store, d, wt, k))

GenerateCollaborationAdjustedEstimate(d, wt, p, k) ==
    QueryOrRaise("generate_collaboration_adjusted_estimate", <<d, wt, p, k>>,
                 generate_collaboration_adjusted_estimate(store, d, wt, p, k))

CalculateDistractionImpact(wt) ==
    Query("calculate_distraction_impact", <<wt>>,
          calculate_distraction_impact(store, wt))

GetKnowledgeTimeInvestment(k) ==
    Query("get_knowledge_time_investment", <<k>>,
          get_knowledge_time_investment(store, k))

GetTimeTrendsByKnowledge(knowledge_ref, days, group_by) ==
    Query("get_time_trends_by_knowledge", <<knowledge_ref, days, group_by>>,
          get_time_trends_by_knowledge(store, now, knowledge_ref, days, group_by))

RankExpertiseByTime(min_minutes) ==
    Query("rank_expertise_by_time", <<min_minutes>>,
          rank_expertise_by_time(store, min_minutes))

IdentifyCollaborationPatterns ==
    Query("identify_collaboration_patterns", <<>>,
          identify_collaboration_patterns(store))

\* analyze_complexity reads no stored data
AnalyzeComplexity(work_description) ==
    /\ ret' = Return("analyze_complexity", <<work_description>>,
                     analyze_complexity(work_description))
    /\ UNCHANGED <<store, now, uuid, calls, history>>

AnalyzeEstimationAccuracy(tolerance_percentage) ==
    QueryOrRaise("analyze_estimation_accuracy", <<tolerance_percentage>>,
                 analyze_estimation_accuracy(store, tolerance_percentage))

----------------------------------------------------------------------------
(* Specifications *)

Next ==
    \/ Tick(Clock)
    \/ \E in \in StartInputs : Room(0) /\ StartWork(in)
    \/ \E id \in IdArgs, in \in EndInputs : EndWork(id, in)
    \/ \E id \in IdArgs, in \in DistractionInputs : RecordDistraction(id, in)
    \/ GetAllEntries
    \/ \E in \in BreakdownInputs : SuggestBreakdown(in)
    \/ Room(0) /\ AcceptBreakdown
    \/ \E id \in BreakdownIdArgs : GetBreakdownProgress(id)
    \/ \E id \in BreakdownIdArgs : AggregateBreakdownResults(id)

Spec == Init /\ [][Next]_vars

\* every operation that writes the log, and get_all_entries, on entries
\* started with one choice of arguments
LogNext ==
    \/ Tick(Clock)
    \/ \E in \in {i \in StartInputs : i.work_type = "writing"} : Room(0) /\ StartWork(in)
    \/ \E id \in IdArgs : EndWork(id, EndDefaults)
    \/ \E id \in IdArgs, in \in DistractionInputs : RecordDistraction(id, in)
    \/ \E id \in IdArgs, k \in LinkKnowledgeInputs : LinkTimeToKnowledge(id, k)
    \/ \E id \in IdArgs, p \in LinkPeopleInputs : LinkTimeToPeople(id, p)
    \/ \E in \in {b \in BreakdownInputs : b.work_type = "technical"} : SuggestBreakdown(in)
    \/ Room(0) /\ AcceptBreakdown
    \/ GetAllEntries

LogSpec == Init /\ [][LogNext]_vars

\* the similarity search and the base estimate over a history of up to
\* MaxEntries + 1 entries that were ended with the default arguments
EstimateNext ==
    \/ Tick(Clock)
    \/ \E in \in StartInputs : Room(1) /\ StartWork(in)
    \/ \E id \in IdArgs : EndWork(id, EndDefaults)
    \/ \E d \in QueryDescriptions, wt \in QueryTypes, k \in QueryKnowledge :
           \/ FindSimilarWork(d, wt, k)
           \/ GenerateEstimate(d, wt, k)

EstimateSpec == Init /\ [][EstimateNext]_vars

\* the statistics and the adjusted estimates over a history with distractions,
\* on the long clock
AdjustedNext ==
    \/ Tick(LongClock)
    \/ \E in \in StartInputs : Room(0) /\ StartWork(in)
    \/ \E id \in IdArgs : EndWork(id, EndDefaults)
    \/ \E id \in IdArgs, in \in DistractionInputs : RecordDistraction(id, in)
    \/ \E positions \in SUBSET (1..MaxEntries) : CalculateStatistics(positions)
    \/ \E wt \in QueryTypes, k \in QueryKnowledge :
           \/ GenerateEstimate("plan the launch", wt, k)
           \/ GenerateEstimateWithDistractionOverhead("plan the launch", wt, k)
           \/ GenerateExperienceAdjustedEstimate("plan the launch", wt, k)
           \/ \E p \in QueryPeople :
                  GenerateCollaborationAdjustedEstimate("plan the launch", wt, p, k)

AdjustedSpec == Init /\ [][AdjustedNext]_vars

\* the analytics over a history of open, planned and completed entries
AnalyticsNext ==
    \/ Tick(Clock)
    \/ \E in \in StartInputs : Room(0) /\ StartWork(in)
    \/ \E id \in IdArgs : EndWork(id, EndDefaults)
    \/ \E id \in IdArgs, in \in DistractionInputs : RecordDistraction(id, in)
    \/ \E in \in {b \in BreakdownInputs : b.work_type = "technical"} : SuggestBreakdown(in)
    \/ Room(1) /\ AcceptBreakdown
    \/ \E k \in QueryKnowledge :
           \/ FindSimilarWork("plan the launch", "technical", k)
           \/ GenerateEstimate("plan the launch", "technical", k)
    \/ \E wt \in {None} \cup {Some(t) : t \in QueryTypes} : CalculateDistractionImpact(wt)
    \/ \E k \in {"API", "DB"} : GetKnowledgeTimeInvestment(k)
    \/ \E m \in QueryMinMinutes : RankExpertiseByTime(m)
    \/ IdentifyCollaborationPatterns
    \/ \E tol \in QueryTolerance : AnalyzeEstimationAccuracy(tol)

AnalyticsSpec == Init /\ [][AnalyticsNext]_vars

\* the four generators over a history of up to MaxEntries + 1 entries of one
\* kind, long enough for a standard deviation above the mean
ClampNext ==
    \/ Tick(LongClock)
    \/ \E in \in {i \in StartInputs : i.people_refs # <<>> /\ i.work_type = "technical"} :
           Room(1) /\ StartWork(in)
    \/ \E id \in IdArgs : EndWork(id, EndDefaults)
    \/ \E id \in IdArgs, in \in DistractionInputs : RecordDistraction(id, in)
    \/ \E wt \in QueryTypes :
           \/ GenerateEstimate("plan the launch", wt, <<>>)
           \/ GenerateEstimateWithDistractionOverhead("plan the launch", wt, <<>>)
           \/ GenerateExperienceAdjustedEstimate("plan the launch", wt, <<"API", "DB">>)
           \/ \E p \in QueryPeople :
                  GenerateCollaborationAdjustedEstimate("plan the launch", wt, p, <<>>)

ClampSpec == Init /\ [][ClampNext]_vars

\* the distraction figures over a history of two work types, on the clock of
\* the distraction scenario
DistractionNext ==
    \/ Tick(ScenarioClock)
    \/ \E in \in {i \in StartInputs : i.description = "fix login bug"} :
           Room(0) /\ StartWork(in)
    \/ \E id \in IdArgs : EndWork(id, EndDefaults)
    \/ \E id \in IdArgs, in \in DistractionInputs : RecordDistraction(id, in)
    \/ \E wt \in {None} \cup {Some(t) : t \in {"technical", "writing"}} :
           CalculateDistractionImpact(wt)
    \/ \E wt \in {"technical", "writing"}, k \in {<<>>, <<"API">>} :
           GenerateEstimateWithDistractionOverhead("plan the launch", wt, k)

DistractionSpec == Init /\ [][DistractionNext]_vars

\* the experience-adjusted estimate over a history of two entries whose
\* durations reach every experience tier
ExperienceNext ==
    \/ Tick(FullClock)
    \/ \E in \in StartInputs : Room(0) /\ StartWork(in)
    \/ \E id \in IdArgs : EndWork(id, EndDefaults)
    \/ \E k \in QueryKnowledge :
           GenerateExperienceAdjustedEstimate("plan the launch", "technical", k)

ExperienceSpec == Init /\ [][ExperienceNext]_vars

\* suggest_breakdown for every generator and complexity level, over a history
\* that feeds the chunk estimates, and the acceptance of what it returns
BreakdownNext ==
    \/ Tick(Clock)
    \/ \E in \in StartInputs : Room(0) /\ StartWork(in)
    \/ \E id \in IdArgs : EndWork(id, EndDefaults)
    \/ \E in \in GatingInputs : SuggestBreakdown(in)
    \/ Room(0) /\ AcceptBreakdown

BreakdownSpec == Init /\ [][BreakdownNext]_vars

\* two callers whose start_work, end_work and record_distraction calls may
\* interleave between load and save
RaceNext ==
    \/ Tick(Clock)
    \/ \E c \in Callers, in \in {i \in StartInputs : i.work_type = "writing"} :
           uuid.time < MaxEntries /\ BeginStartWork(c, in)
    \/ \E c \in Callers : FinishStartWork(c)
    \/ \E c \in Callers, id \in IdArgs : BeginEndWork(c, id, EndDefaults)
    \/ \E c \in Callers : FinishEndWork(c)
    \/ \E c \in Callers, id \in IdArgs, in \in DistractionInputs :
           PendingDistractions < MaxDistractions /\ BeginRecordDistraction(c, id, in)
    \/ \E c \in Callers : FinishRecordDistraction(c)

RaceSpec == Init /\ [][RaceNext]_vars

\* the backtest of the estimates over the stores that start_work, end_work
\* and record_distraction reach, calls on different entries interleaved
AccuracyNext ==
    \/ Tick(LongClock)
    \/ \E in \in StartInputs : Room(0) /\ StartWork(in)
    \/ \E id \in IdArgs : EndWork(id, EndDefaults)
    \/ \E id \in IdArgs, in \in DistractionInputs : RecordDistraction(id, in)
    \/ \E tol \in QueryTolerance : AnalyzeEstimationAccuracy(tol)

AccuracySpec == Init /\ [][AccuracyNext]_vars

\* several distractions on entries that are planned, open and closed
DistractionLogNext ==
    \/ Tick(Clock)
    \/ \E in \in {i \in StartInputs : i.work_type = "writing"} : Room(0) /\ StartWork(in)
    \/ \E id \in IdArgs : EndWork(id, EndDefaults)
    \/ \E id \in IdArgs, in \in DistractionLogInputs : RecordDistractions(id, in)
    \/ \E in \in {b \in BreakdownInputs : b.work_type = "general"} : SuggestBreakdown(in)
    \/ Room(1) /\ AcceptBreakdown

DistractionLogSpec == Init /\ [][DistractionLogNext]_vars

\* analyze_complexity on its own, over descriptions of every score
ComplexityNext ==
    \E d \in ComplexityInputs : AnalyzeComplexity(d)

ComplexitySpec == Init /\ [][ComplexityNext]_vars

\* the minutes worked on consecutive days: up to MaxTrendDays days of 1 or 2
\* minutes, and two days of which the first has 100 minutes
RECURSIVE Histories(_, _)
Histories(n, values) ==
    IF n = 0 THEN {<<>>}
    ELSE LET shorter == Histories(n - 1, values)
         IN shorter \cup {Append(h, v) : h \in {g \in shorter : Len(g) = n - 1},
                                         v \in values}

TrendHistories ==
    Histories(MaxTrendDays, {1, 2})
        \cup {<<100, v>> : v \in {79, 80, 81, 119, 120, 121}}

\* the store after the work of a history: on day i, start_work at 09:00 and
\* end_work history[i] minutes later
RECURSIVE HistoryStore(_)
HistoryStore(h) ==
    IF h = <<>> THEN EmptyStore
    ELSE LET n == Len(h)
             t == (n - 1) * SecondsPerDay + 9 * 60 * 60
             in == CHOOSE i \in StartInputs : i.knowledge_refs = <<"API">>
             started == start_work(HistoryStore(SubSeq(h, 1, n - 1)), WorkId(n), t, in)
         IN end_work(started, WorkId(n), t + 60 * h[n], EndDefaults)

TrendInit ==
    /\ \E h \in TrendHistories :
           /\ store = HistoryStore(h)
           /\ uuid = [time |-> Len(h), breakdown |-> 0]
    /\ now = MaxTrendDays * SecondsPerDay
    /\ ret = Return("init", <<>>, None)
    /\ calls = [c \in Callers |-> Idle]
    /\ history = [acked |-> {}, overlapped |-> FALSE]

TrendNext ==
    \E k \in {None, Some("API"), Some("DB")}, days \in {90, 3},
       group_by \in {"day", "week", "month", "year"} :
        GetTimeTrendsByKnowledge(k, days, group_by)

TrendSpec == TrendInit /\ [][TrendNext]_vars

\* a caller that works an accepted breakdown off: it goes on calling end_work
\* on every id it holds and asking for the progress of the breakdown
CompletionNext ==
    \/ Tick(Clock)
    \/ \E in \in {i \in StartInputs : i.work_type = "writing"} : Room(0) /\ StartWork(in)
    \/ \E id \in IdArgs : EndWork(id, EndDefaults)
    \/ \E in \in BreakdownInputs : SuggestBreakdown(in)
    \/ Room(0) /\ AcceptBreakdown
    \/ \E id \in BreakdownIdArgs : GetBreakdownProgress(id)

\* the ids accept_breakdown can hand out
PlannedIds == {WorkId(n) : n \in 1..(MaxEntries + 4)}

\* each of the caller's calls that stays possible is made in the end
CompletionFairness ==
    /\ \A id \in PlannedIds : WF_vars(id \in IdArgs /\ EndWork(id, EndDefaults))
    /\ \A n \in 1..MaxBreakdowns :
           WF_vars(BreakdownId(n) \in BreakdownIdArgs
                       /\ GetBreakdownProgress(BreakdownId(n)))

CompletionSpec == Init /\ [][CompletionNext]_vars /\ CompletionFairness

----------------------------------------------------------------------------
(* Properties of the time entry store *)

\* the entries that have been ended
EndedEntries == SelectSeq(store.entries, LAMBDA e : e.end_time # None)
Elapsed(e) == The(e.end_time) - The(e.start_time)

\* C1, as the specification states it: the stored duration_minutes of an ended
\* entry is its elapsed time in seconds over 60, rounded to the nearest whole
\* minute
C1_DurationRounds ==
    \A i \in 1..Len(EndedEntries) :
        LET e == EndedEntries[i]
        IN e.duration_minutes = Some(Round60(Elapsed(e)))

\* C1, as the code has it: the stored duration_minutes of an ended entry is the
\* number of whole minutes elapsed, the fraction dropped: d minutes fit in
\* the elapsed time and d + 1 do not; it is 0 when the entry ends at the
\* instant it started
C1_DurationTruncates ==
    \A i \in 1..Len(EndedEntries) :
        LET e == EndedEntries[i]
            d == The(e.duration_minutes)
        IN /\ e.duration_minutes # None
           /\ 60 * d <= Elapsed(e)
           /\ Elapsed(e) < 60 * (d + 1)
           /\ Elapsed(e) = 0 => d = 0

\* end_work has just ended an entry 90 seconds after its start, at 1 minute
C1_Witness ==
    /\ ret.op = "end_work"
    /\ ~ret.exc
    /\ ret.val # None
    /\ The(The(ret.val).end_time) - The(The(ret.val).start_time) = 90
    /\ The(ret.val).duration_minutes = Some(1)

EntryIds(data) == Map(get_all_entries(data), LAMBDA e : e.id)
IsPrefix(s, t) == Len(s) <= Len(t) /\ SubSeq(t, 1, Len(s)) = s

\* C2: every step keeps the ids get_all_entries returned before it as a prefix
\* of those it returns after it, and a start_work step appends exactly one
\* entry to the log, open and empty, carrying the given description,
\* work_type and refs, and returns its id
C2_AppendOnly ==
    [][/\ IsPrefix(EntryIds(store), EntryIds(store'))
       /\ (ret'.op = "start_work" /\ uuid'.time # uuid.time) =>
              LET n == Len(store.entries)
                  e == store'.entries[n + 1]
                  in == ret'.args
              IN /\ Len(store'.entries) = n + 1
                 /\ SubSeq(store'.entries, 1, n) = store.entries
                 /\ e.id = ret'.val
                 /\ e.start_time = Some(now)
                 /\ e.end_time = None /\ e.duration_minutes = None
                 /\ e.distractions = <<>> /\ e.notes = ""
                 /\ e.work_description = in.description
                 /\ e.work_type = in.work_type
                 /\ e.knowledge_refs = in.knowledge_refs
                 /\ e.people_refs = in.people_refs]_vars

\* start_work has just appended to a log whose first entry has been ended
\* and linked to a second person
C2_Witness ==
    /\ ret.op = "start_work"
    /\ Len(store.entries) >= 2
    /\ store.entries[Len(store.entries)].id = ret.val
    /\ store.entries[1].end_time # None
    /\ Len(store.entries[1].people_refs) = 2

Absent(work_id) == \A i \in 1..Len(store.entries) : store.entries[i].id # work_id
AbsentBreakdown(breakdown_id) ==
    \A i \in 1..Len(store.breakdowns) :
        store.breakdowns[i].breakdown_id # breakdown_id

\* C3: a call with an id the store does not hold raises nothing, returns null
\* (end_work, get_breakdown_progress, aggregate_breakdown_results) or false
\* (record_distraction), and leaves entries and breakdowns as they were
C3_NotFoundByValue ==
    [][/\ (ret'.op = "end_work" /\ Absent(ret'.args.work_id)) =>
              (~ret'.exc /\ ret'.val = None /\ store' = store)
       /\ (ret'.op = "record_distraction" /\ Absent(ret'.args.work_id)) =>
              (~ret'.exc /\ ret'.val = FALSE /\ store' = store)
       /\ (/\ ret'.op \in {"get_breakdown_progress", "aggregate_breakdown_results"}
           /\ AbsentBreakdown(ret'.args[1])) =>
              (~ret'.exc /\ ret'.val = None /\ store' = store)]_vars

\* a call on an unknown id has just returned while the store holds an entry
\* and a breakdown
C3_Witness ==
    /\ ret.op \in {"end_work", "record_distraction"}
    /\ Absent(ret.args.work_id)
    /\ store.entries # <<>>
    /\ store.breakdowns # <<>>

\* C4, as the specification states it: end_work on an id the store holds,
\* started or planned, raises nothing, leaves end_time and duration_minutes
\* set on that entry and returns the entry
C4_EndWorkCompletes ==
    (ret.op = "end_work" /\ ~Absent(ret.args.work_id)) =>
        LET e == store.entries[FindEntry(store.entries, ret.args.work_id)]
        IN /\ ~ret.exc
           /\ e.end_time # None
           /\ e.duration_minutes # None
           /\ ret.val = Some(Filtered(e))

----------------------------------------------------------------------------
(* Properties of the statistics *)

\* the store without the entries that have no duration
Strip(data) == [data EXCEPT !.entries = SelectSeq(@, Completed)]

AllTypes == {"technical", "writing", "general"}
AllKnowledge == QueryKnowledge \cup {<<"DB">>}

\* C5: open and planned entries do not influence a statistical result: each
\* of the seven queries returns on the store what it returns on the store
\* with every entry of null duration_minutes removed
C5_NullDurationsIgnored ==
    /\ \A wt \in AllTypes, k \in AllKnowledge :
           /\ find_similar_work(store, "plan the launch", wt, k)
                  = find_similar_work(Strip(store), "plan the launch", wt, k)
           /\ generate_estimate(store, "plan the launch", wt, k)
                  = generate_estimate(Strip(store), "plan the launch", wt, k)
    /\ \A wt \in {None} \cup {Some(t) : t \in AllTypes} :
           calculate_distraction_impact(store, wt)
               = calculate_distraction_impact(Strip(store), wt)
    /\ \A k \in {"API", "DB"} :
           get_knowledge_time_investment(store, k)
               = get_knowledge_time_investment(Strip(store), k)
    /\ \A m \in QueryMinMinutes :
           rank_expertise_by_time(store, m) = rank_expertise_by_time(Strip(store), m)
    /\ identify_collaboration_patterns(store)
           = identify_collaboration_patterns(Strip(store))
    /\ \A tol \in QueryTolerance :
           analyze_estimation_accuracy(store, tol)
               = analyze_estimation_accuracy(Strip(store), tol)

\* a ranking has just been returned, not empty, from a store that holds an
\* open entry with a distraction, a planned entry and a completed entry
C5_Witness ==
    /\ ret.op = "rank_expertise_by_time"
    /\ ret.val # <<>>
    /\ \E i \in 1..Len(store.entries) :
           /\ store.entries[i].start_time # None
           /\ store.entries[i].duration_minutes = None
           /\ store.entries[i].distractions # <<>>
    /\ \E i \in 1..Len(store.entries) : store.entries[i].start_time = None
    /\ \E i \in 1..Len(store.entries) : Completed(store.entries[i])

\* the positions of the entries the specification calls similar: completed,
\* of the queried work_type and, when references are queried, sharing one
SimilarPositions(work_type, knowledge_refs) ==
    {i \in 1..Len(store.entries) :
        LET e == store.entries[i]
        IN /\ e.duration_minutes # None
           /\ e.work_type = work_type
           /\ knowledge_refs # <<>> =>
                  \E a \in 1..Len(e.knowledge_refs), b \in 1..Len(knowledge_refs) :
                      e.knowledge_refs[a] = knowledge_refs[b]}

\* the j-th smallest element of a set of positions
Nth(positions, j) ==
    CHOOSE i \in positions : Cardinality({x \in positions : x < i}) = j - 1

\* C6: find_similar_work returns exactly the similar entries, in stored
\* order: completed, of the queried work_type and, when knowledge_refs is not
\* empty, with at least one reference in common with it
C6_SimilarWork ==
    \A wt \in AllTypes, k \in AllKnowledge :
        LET result == find_similar_work(store, "plan the launch", wt, k)
            positions == SimilarPositions(wt, k)
        IN /\ Len(result) = Cardinality(positions)
           /\ \A j \in 1..Len(result) :
                  result[j] = Filtered(store.entries[Nth(positions, j)])

\* a query for two references on a log of three entries has just returned
\* two entries, each sharing only one of the references
C6_Witness ==
    /\ ret.op = "find_similar_work"
    /\ ret.args[3] = <<"API", "DB">>
    /\ Len(store.entries) = 3
    /\ Len(ret.val) = 2
    /\ ret.val[1].knowledge_refs = <<"DB", "DB">>
    /\ ret.val[2].knowledge_refs = <<"API">>

StoredDescriptions ==
    {store.entries[i].work_description : i \in 1..Len(store.entries)}

\* the figures of an estimate, or None
Figures(estimate) ==
    IF estimate = None THEN None
    ELSE <<The(estimate).mean_minutes, The(estimate).variance,
           The(estimate).min_estimate, The(estimate).max_estimate>>

\* C7: two calls that differ only in the description return the same
\* entries from find_similar_work and the same mean, variance, min and max
\* from generate_estimate
C7_DescriptionBlind ==
    \A d1, d2 \in QueryDescriptions \cup StoredDescriptions :
        \A wt \in QueryTypes, k \in QueryKnowledge :
            /\ find_similar_work(store, d1, wt, k) = find_similar_work(store, d2, wt, k)
            /\ Figures(generate_estimate(store, d1, wt, k))
                   = Figures(generate_estimate(store, d2, wt, k))

\* a query has just returned entries of which one carries the queried
\* description and another does not
C7_Witness ==
    /\ ret.op = "find_similar_work"
    /\ \E i, j \in 1..Len(ret.val) :
           /\ ret.val[i].work_description = ret.args[1]
           /\ ret.val[j].work_description # ret.args[1]

\* the lists a caller can build from the store: the entries at chosen positions
EntryLists ==
    {[j \in 1..Cardinality(ps) |-> Filtered(store.entries[Nth(ps, j)])] :
        ps \in SUBSET (1..Len(store.entries))}

\* the non-null durations of a list, by position
NonNull(list) == {i \in 1..Len(list) : list[i].duration_minutes # None}
RECURSIVE SumOver(_, _, _)
SumOver(list, positions, power) ==
    IF positions = {} THEN 0
    ELSE LET i == CHOOSE x \in positions : TRUE
             d == The(list[i].duration_minutes)
         IN (IF power = 2 THEN d * d ELSE d) + SumOver(list, positions \ {i}, power)

\* C8: calculate_statistics returns the population mean and the population
\* variance of the non-null durations d of its input: with N of them,
\* mean = sum(d) / N and variance = (N * sum(d^2) - sum(d)^2) / N^2, which is
\* never negative and 0 for a single duration; it returns (0, 0) when N = 0
C8_PopulationStatistics ==
    \A list \in EntryLists :
        LET stats == calculate_statistics(list)
            N == Cardinality(NonNull(list))
            sum == SumOver(list, NonNull(list), 1)
            squares == SumOver(list, NonNull(list), 2)
        IN /\ stats.mean.d > 0 /\ stats.variance.d > 0
           /\ stats.variance.n >= 0
           /\ N = 0 => stats.mean.n = 0 /\ stats.variance.n = 0
           /\ N > 0 => /\ stats.mean.n * N = sum * stats.mean.d
                       /\ stats.variance.n * N * N
                              = (N * squares - sum * sum) * stats.variance.d
           /\ N = 1 => stats.variance.n = 0

\* the statistics of two entries of 1 and 3 minutes have just been returned:
\* mean 2, variance 1
C8_Witness ==
    /\ ret.op = "calculate_statistics"
    /\ Len(ret.args[1]) = 2
    /\ ret.args[1][1].duration_minutes = Some(1)
    /\ ret.args[1][2].duration_minutes = Some(3)
    /\ ret.val = [mean |-> RInt(2), variance |-> RInt(1)]

\* C9: generate_estimate returns null exactly when no entry is similar, and
\* otherwise an estimate that counts the similar entries and lists their ids
\* in stored order; each adjusted generator returns null, raising nothing,
\* when generate_estimate does
C9_NullWithoutHistory ==
    \A wt \in AllTypes, k \in AllKnowledge :
        LET base == generate_estimate(store, "plan the launch", wt, k)
            positions == SimilarPositions(wt, k)
        IN /\ base = None <=> positions = {}
           /\ base # None =>
                  /\ The(base).similar_work_count = Cardinality(positions)
                  /\ The(base).similar_work_ids
                         = [j \in 1..Cardinality(positions) |->
                               store.entries[Nth(positions, j)].id]
           /\ base = None =>
                  /\ generate_estimate_with_distraction_overhead(
                         store, "plan the launch", wt, k) = None
                  /\ generate_experience_adjusted_estimate(
                         store, "plan the launch", wt, k) = None
                  /\ \A p \in QueryPeople \cup {<<"amy">>} :
                         generate_collaboration_adjusted_estimate(
                             store, "plan the launch", wt, p, k)
                             = [val |-> None, exc |-> None]

\* an adjusted generator has just returned null on a store that holds
\* completed entries, none of them similar to the query
C9_Witness ==
    /\ ret.op = "generate_collaboration_adjusted_estimate"
    /\ ~ret.exc
    /\ ret.val = None
    /\ ret.args[3] # <<>>
    /\ Len(store.entries) = 2
    /\ \A i \in 1..Len(store.entries) : Completed(store.entries[i])

\* the EstimateResult invariants of the data model
EstimateInvariants(r) ==
    /\ SSquare(r.std_dev) = SRat(r.variance)
    /\ r.min_estimate = Max0(SSub(SRat(r.mean_minutes), r.std_dev))
    /\ r.max_estimate = SAdd(SRat(r.mean_minutes), r.std_dev)
    /\ r.confidence_range = <<r.min_estimate, r.max_estimate>>

Generators ==
    {"generate_estimate", "generate_estimate_with_distraction_overhead",
     "generate_experience_adjusted_estimate",
     "generate_collaboration_adjusted_estimate"}

\* a generator has just returned an EstimateResult
Estimated == ret.op \in Generators /\ ~ret.exc /\ ret.val # None

\* C10, as the specification states it: every EstimateResult the four
\* generators return satisfies the EstimateResult invariants
C10_EveryEstimateInvariant == Estimated => EstimateInvariants(The(ret.val))

\* the multipliers of the experience tiers
TierFactors == {Rat(12, 10), Rat(10, 10), Rat(85, 100), Rat(7, 10)}

\* r is the base estimate with mean, min and max multiplied by f, and the
\* variance and std_dev of the base estimate
ScaledBy(r, base, f) ==
    /\ r.mean_minutes = RMul(f, base.mean_minutes)
    /\ r.min_estimate = SScale(f, Max0(SSub(SRat(base.mean_minutes), base.std_dev)))
    /\ r.max_estimate = SScale(f, SAdd(SRat(base.mean_minutes), base.std_dev))
    /\ r.variance = base.variance
    /\ r.std_dev = base.std_dev
    /\ SSquare(r.std_dev) = SRat(r.variance)
    /\ r.confidence_range = <<r.min_estimate, r.max_estimate>>

\* C10, as the code has it: the results of generate_estimate and of
\* generate_collaboration_adjusted_estimate satisfy the EstimateResult
\* invariants; a result of the distraction and of the experience generator is
\* the base estimate with mean, min and max multiplied by the adjustment
\* factor f (1 + overhead / 100, a tier multiplier, or 1 when nothing is
\* adjusted) and std_dev and variance left as they were, so that
\* std_dev^2 = variance and confidence_range = (min, max) hold while
\* min = f * max(0, base mean - std_dev) and max = f * (base mean + std_dev)
C10_EstimateInvariants ==
    Estimated =>
        LET r == The(ret.val)
            base == The(generate_estimate(store, ret.args[1], ret.args[2],
                                          ret.args[Len(ret.args)]))
            impact == calculate_distraction_impact(store, Some(ret.args[2]))
        IN CASE ret.op = "generate_estimate_with_distraction_overhead" ->
                    ScaledBy(r, base,
                             IF impact.entries_with_distractions > 0
                             THEN RAdd(RInt(1),
                                       RDiv(impact.average_distraction_overhead_percentage,
                                            RInt(100)))
                             ELSE RInt(1))
             [] ret.op = "generate_experience_adjusted_estimate" ->
                    \E f \in TierFactors : ScaledBy(r, base, f)
             [] OTHER -> EstimateInvariants(r)

\* the distraction generator has just returned an estimate whose mean is
\* three times the base mean of 2 and whose std_dev is the base std_dev of 1:
\* the range is (3, 9), not (5, 7)
C10_Witness ==
    /\ ret.op = "generate_estimate_with_distraction_overhead"
    /\ ret.val # None
    /\ The(ret.val).mean_minutes = RInt(6)
    /\ The(ret.val).std_dev = SRat(RInt(1))
    /\ The(ret.val).confidence_range = <<SRat(RInt(3)), SRat(RInt(9))>>

----------------------------------------------------------------------------

\* x <= y for two values a + b*sqrt(v)
SLe(x, y) == SNonNeg(SSub(y, x))

\* C11: in every EstimateResult any of the four generators returns,
\* 0 <= min_estimate <= mean_minutes <= max_estimate, also when std_dev
\* exceeds the mean and after an adjustment
C11_EstimateClamping ==
    Estimated =>
        LET r == The(ret.val)
        IN /\ SLe(SRat(RZero), r.min_estimate)
           /\ SLe(r.min_estimate, SRat(r.mean_minutes))
           /\ SLe(SRat(r.mean_minutes), r.max_estimate)

\* the distraction generator has just returned an estimate whose std_dev
\* exceeds its mean, with a positive mean and a min_estimate of 0
C11_Witness ==
    /\ Estimated
    /\ ret.op = "generate_estimate_with_distraction_overhead"
    /\ calculate_distraction_impact(store, Some(ret.args[2])).entries_with_distractions > 0
    /\ RLt(RZero, The(ret.val).mean_minutes)
    /\ ~SLe(The(ret.val).std_dev, SRat(The(ret.val).mean_minutes))
    /\ The(ret.val).min_estimate = SRat(RZero)

----------------------------------------------------------------------------

\* the positions of the completed entries of a work_type (None: of any type)
\* and, among them, of those with and without a distraction
TypedPositions(work_type) ==
    {i \in 1..Len(store.entries) :
        /\ Completed(store.entries[i])
        /\ work_type # None => store.entries[i].work_type = The(work_type)}
Distracted(positions) == {i \in positions : store.entries[i].distractions # <<>>}

\* avg is the average duration of the entries at the positions, 0 for none
IsAverage(avg, positions) ==
    IF positions = {} THEN avg = RZero
    ELSE RMul(avg, RInt(Cardinality(positions)))
             = RInt(SumOver(store.entries, positions, 1))

\* C12: calculate_distraction_impact(work_type) splits the completed entries
\* of the work_type into those with a distraction and those without, counts
\* both groups, reports the average duration of each (0 for an empty group),
\* their difference as the overhead in minutes, and
\* (avg_with - avg_without) / avg_without * 100 as the overhead percentage
\* when avg_without > 0, else 0
C12_DistractionImpact ==
    (ret.op = "calculate_distraction_impact") =>
        LET typed == TypedPositions(ret.args[1])
            with == Distracted(typed)
            without == typed \ with
            avg_with == ret.val.average_duration_with_distractions
            avg_without == ret.val.average_duration_without_distractions
            percentage == ret.val.average_distraction_overhead_percentage
        IN /\ ret.val.entries_with_distractions = Cardinality(with)
           /\ ret.val.entries_without_distractions = Cardinality(without)
           /\ ret.val.entries_with_distractions
                  + ret.val.entries_without_distractions = Cardinality(typed)
           /\ IsAverage(avg_with, with)
           /\ IsAverage(avg_without, without)
           /\ ret.val.average_distraction_overhead_minutes = RSub(avg_with, avg_without)
           /\ IF RLt(RZero, avg_without)
              THEN RMul(percentage, avg_without)
                       = RMul(RInt(100), RSub(avg_with, avg_without))
              ELSE percentage = RZero

\* the scenario: of two technical entries beside none of another kind, the
\* distracted one took 60 minutes and the other 40, which gives 60, 40 and 50%
C12_Witness ==
    /\ ret.op = "calculate_distraction_impact"
    /\ ret.args[1] = Some("technical")
    /\ ret.val.entries_with_distractions = 1
    /\ ret.val.entries_without_distractions = 1
    /\ ret.val.average_duration_with_distractions = RInt(60)
    /\ ret.val.average_duration_without_distractions = RInt(40)
    /\ ret.val.average_distraction_overhead_minutes = RInt(20)
    /\ ret.val.average_distraction_overhead_percentage = RInt(50)

----------------------------------------------------------------------------

\* C13: generate_estimate_with_distraction_overhead returns an estimate
\* exactly when the base estimate exists; when a completed entry of the
\* work_type has a distraction, its mean, min and max are those of the base
\* estimate multiplied by 1 + overhead_pct / 100 and its variance, std_dev,
\* similar_work_count and similar_work_ids those of the base estimate; when
\* none has, it is the base estimate itself
C13_DistractionOverhead ==
    (ret.op = "generate_estimate_with_distraction_overhead") =>
        LET base == generate_estimate(store, ret.args[1], ret.args[2], ret.args[3])
            b == The(base)
            r == The(ret.val)
            overhead_pct ==
                calculate_distraction_impact(store, Some(ret.args[2]))
                    .average_distraction_overhead_percentage
            f == RAdd(RInt(1), RDiv(overhead_pct, RInt(100)))
        IN /\ (ret.val = None) <=> (base = None)
           /\ base # None =>
                  IF Distracted(TypedPositions(Some(ret.args[2]))) # {}
                  THEN /\ r.mean_minutes = RMul(b.mean_minutes, f)
                       /\ r.min_estimate = SScale(f, b.min_estimate)
                       /\ r.max_estimate = SScale(f, b.max_estimate)
                       /\ r.variance = b.variance
                       /\ r.std_dev = b.std_dev
                       /\ r.similar_work_count = b.similar_work_count
                       /\ r.similar_work_ids = b.similar_work_ids
                  ELSE ret.val = base

\* the base estimate of 50 minutes within (40, 60) has just been returned
\* as 75 minutes within (60, 90), the overhead being 50%
C13_Witness ==
    /\ ret.op = "generate_estimate_with_distraction_overhead"
    /\ ret.val # None
    /\ The(generate_estimate(store, ret.args[1], ret.args[2], ret.args[3])).mean_minutes
           = RInt(50)
    /\ The(ret.val).mean_minutes = RInt(75)
    /\ The(ret.val).confidence_range = <<SRat(RInt(60)), SRat(RInt(90))>>
    /\ The(ret.val).std_dev = SRat(RInt(10))

----------------------------------------------------------------------------

\* the minutes of the completed entries tagged with a reference, summed over
\* the references of a list
ExperienceMinutes(knowledge_refs) ==
    SumSeq(Map(knowledge_refs,
               LAMBDA k : SumOver(store.entries,
                                  {i \in 1..Len(store.entries) :
                                      /\ Completed(store.entries[i])
                                      /\ k \in Range(store.entries[i].knowledge_refs)},
                                  1)))

\* the multiplier table of the specification
TierMultiplier(minutes) ==
    CASE minutes < 120 -> Rat(120, 100)
      [] minutes \in 120..479 -> Rat(100, 100)
      [] minutes \in 480..1199 -> Rat(85, 100)
      [] minutes >= 1200 -> Rat(70, 100)

\* the multipliers at the boundaries of the tiers, and the largest total tried
TierSamples == <<0, 119, 120, 479, 480, 1199, 1200, 5000>>
TierAnswers ==
    <<Rat(12, 10), Rat(12, 10), Rat(1, 1), Rat(1, 1),
      Rat(85, 100), Rat(85, 100), Rat(7, 10), Rat(7, 10)>>
MaxMinutes == 1300

\* more experience never yields a larger multiplier, and the boundaries fall
\* where the specification puts them
TiersMonotonic ==
    /\ \A m \in 0..MaxMinutes :
           RLe(ExperienceTier(m + 1).adjustment_factor,
               ExperienceTier(m).adjustment_factor)
    /\ \A i \in 1..Len(TierSamples) :
           ExperienceTier(TierSamples[i]).adjustment_factor = TierAnswers[i]

\* C14: generate_experience_adjusted_estimate with knowledge_refs sums the
\* minutes of get_knowledge_time_investment over the references given and
\* multiplies the mean, min and max of the base estimate by 1.20 below 120
\* minutes, 1.00 for 120..479, 0.85 for 480..1199 and 0.70 from 1200 on, a
\* multiplier that never grows with the minutes; without knowledge_refs it
\* returns the base estimate
C14_ExperienceTiers ==
    /\ TiersMonotonic
    /\ (ret.op = "generate_experience_adjusted_estimate") =>
           LET base == generate_estimate(store, ret.args[1], ret.args[2], ret.args[3])
               b == The(base)
               r == The(ret.val)
               f == TierMultiplier(ExperienceMinutes(ret.args[3]))
           IN /\ (ret.val = None) <=> (base = None)
              /\ base # None =>
                     IF ret.args[3] = <<>> THEN ret.val = base
                     ELSE /\ r.mean_minutes = RMul(b.mean_minutes, f)
                          /\ r.min_estimate = SScale(f, b.min_estimate)
                          /\ r.max_estimate = SScale(f, b.max_estimate)
                          /\ r.variance = b.variance
                          /\ r.std_dev = b.std_dev

\* an estimate has just been returned at exactly m minutes of experience;
\* the bases below are over the entries whose minutes are counted
AtMinutes(m) ==
    /\ ret.op = "generate_experience_adjusted_estimate"
    /\ ret.val # None
    /\ ret.args[3] # <<>>
    /\ ExperienceMinutes(ret.args[3]) = m

\* the query has just been answered at 1200 minutes of experience, the sum
\* over two references, with the base mean of 600 scaled to 420
C14_Witness ==
    /\ AtMinutes(1200)
    /\ Len(ret.args[3]) = 2
    /\ The(ret.val).mean_minutes = RInt(420)

----------------------------------------------------------------------------

\* the positions of the collaborative population of a query: completed, of
\* the work_type, with a person of people_refs
CollaborativePositions(work_type, people_refs) ==
    {i \in 1..Len(store.entries) :
        /\ Completed(store.entries[i])
        /\ store.entries[i].work_type = work_type
        /\ Range(store.entries[i].people_refs) \cap Range(people_refs) # {}}

\* r holds the statistics of the entries at the positions and nothing else
StatisticsOf(r, positions) ==
    LET N == Cardinality(positions)
        sum == SumOver(store.entries, positions, 1)
        squares == SumOver(store.entries, positions, 2)
    IN /\ r.mean_minutes = Rat(sum, N)
       /\ r.variance = Rat(N * squares - sum * sum, N * N)
       /\ SSquare(r.std_dev) = SRat(r.variance)
       /\ SLe(SRat(RZero), r.std_dev)
       /\ r.min_estimate = Max0(SSub(SRat(r.mean_minutes), r.std_dev))
       /\ r.max_estimate = SAdd(SRat(r.mean_minutes), r.std_dev)

\* C15: generate_collaboration_adjusted_estimate with a base estimate and
\* people_refs returns the mean, variance, std_dev, min and max of the
\* collaborative population alone whenever that population is not empty, and
\* the base estimate when it is empty or when people_refs is empty
C15_CollaborationReplaces ==
    (ret.op = "generate_collaboration_adjusted_estimate") =>
        LET base == generate_estimate(store, ret.args[1], ret.args[2], ret.args[4])
            population == CollaborativePositions(ret.args[2], ret.args[3])
        IN base # None =>
               /\ ~ret.exc
               /\ IF ret.args[3] = <<>> \/ population = {}
                  THEN ret.val = base
                  ELSE /\ ret.val # None
                       /\ StatisticsOf(The(ret.val), population)

----------------------------------------------------------------------------

\* C16: suggest_breakdown returns null if and only if the complexity level
\* of the description is "low"; for a description of medium or high
\* complexity it returns a WorkBreakdown with at least one chunk
C16_BreakdownGating ==
    (ret.op = "suggest_breakdown") =>
        LET level == analyze_complexity(ret.args.description).complexity_level
        IN /\ (ret.val = None) <=> (level = "low")
           /\ level # "low" => ret.val # None /\ Len(The(ret.val).chunks) >= 1

----------------------------------------------------------------------------

\* the sum of the estimates of the first n chunks
RECURSIVE EstimateUpTo(_, _)
EstimateUpTo(chunks, n) ==
    IF n = 0 THEN RZero
    ELSE RAdd(EstimateUpTo(chunks, n - 1), chunks[n].estimated_minutes)

\* C17: in every WorkBreakdown suggest_breakdown returns, whichever the
\* generator, the chunk ids are chunk_1 .. chunk_N in list order, the first
\* chunk has no dependency, every later chunk depends on exactly the chunk
\* before it, and estimated_total is the sum of the chunks' estimated_minutes
C17_ChunkChaining ==
    (ret.op = "suggest_breakdown" /\ ret.val # None) =>
        LET chunks == The(ret.val).chunks
        IN /\ \A i \in 1..Len(chunks) : chunks[i].id = "chunk_" \o ToString(i)
           /\ chunks[1].dependencies = <<>>
           /\ \A i \in 2..Len(chunks) : chunks[i].dependencies = <<chunks[i - 1].id>>
           /\ The(ret.val).estimated_total = EstimateUpTo(chunks, Len(chunks))

\* the technical generator has just returned a chain of four chunks whose
\* estimates come from the history: four times half a minute
C17_Witness ==
    /\ ret.op = "suggest_breakdown"
    /\ ret.val # None
    /\ ret.args.work_type = "technical"
    /\ Len(The(ret.val).chunks) = 4
    /\ The(ret.val).chunks[4].dependencies = <<"chunk_3">>
    /\ The(ret.val).estimated_total = RInt(2)

----------------------------------------------------------------------------

\* C18: accept_breakdown(b) appends b to the breakdowns of the store and one
\* new entry per chunk of b, in chunk order, to the log; each new entry has
\* null start_time, end_time and duration_minutes and carries the
\* breakdown_id of b, the id of its chunk and the chunk's estimated_minutes;
\* the ids returned are those of the new entries in the same order, and the
\* entries stored before are unchanged
C18_AcceptBreakdown ==
    [][(ret.op = "suggest_breakdown" /\ ret'.op = "accept_breakdown") =>
          LET b == ret'.args
              n == Len(b.chunks)
              old == store.entries
              new == store'.entries
          IN /\ b = The(ret.val)
             /\ store'.breakdowns = Append(store.breakdowns, b)
             /\ Len(new) = Len(old) + n
             /\ SubSeq(new, 1, Len(old)) = old
             /\ Len(ret'.val) = n
             /\ ~ret'.exc
             /\ \A k \in 1..n :
                    LET e == new[Len(old) + k]
                    IN /\ e.start_time = None
                       /\ e.end_time = None
                       /\ e.duration_minutes = None
                       /\ e.breakdown_id = Some(b.breakdown_id)
                       /\ e.chunk_id = Some(b.chunks[k].id)
                       /\ e.estimated_minutes = Some(b.chunks[k].estimated_minutes)
                       /\ e.id = ret'.val[k]
                       /\ \A j \in 1..(Len(old) + k - 1) : new[j].id # e.id]_vars

\* a breakdown of four chunks has just been accepted into a log that held
\* one completed entry
C18_Witness ==
    /\ ret.op = "accept_breakdown"
    /\ Len(ret.val) = 4
    /\ Len(store.entries) = 5
    /\ Completed(store.entries[1])
    /\ store.entries[5].chunk_id = Some("chunk_4")
    /\ store.entries[5].id = ret.val[4]

----------------------------------------------------------------------------

\* a call told its caller that it succeeded and the file does not show it:
\* the entry started is not there, the entry ended has no duration, or the
\* entry has no distraction
Lost ==
    \E a \in history.acked :
        LET i == FindEntry(store.entries, a[2])
        IN \/ i = 0
           \/ a[1] = "end_work" /\ store.entries[i].duration_minutes = None
           \/ a[1] = "record_distraction" /\ store.entries[i].distractions = <<>>

\* C19: an update is lost only if two calls overlapped between the load and
\* the save of one of them: as long as the mutations run one at a time,
\* every call that returned success shows in the persisted store (the state
\* with a lost update that interleaving reaches is the witness)
C19_NoLossOneAtATime == Lost => history.overlapped

\* two end_work calls on different entries have both returned their entry,
\* nobody is in a call any more, and one of the two entries is still open in
\* the file
C19_Witness ==
    /\ \A c \in Callers : ~Busy(c)
    /\ Len(store.entries) = 2
    /\ \A i \in 1..2 : <<"end_work", store.entries[i].id>> \in history.acked
    /\ \E i \in 1..2 : store.entries[i].duration_minutes = None
    /\ ret.op = "end_work" /\ ret.val # None

\* a start_work that ran across an end_work has returned its id, and the
\* entry the end_work closed and returned is open in the file again
C19_WitnessStart ==
    /\ \A c \in Callers : ~Busy(c)
    /\ ret.op = "start_work"
    /\ \E i \in 1..Len(store.entries) :
           /\ <<"end_work", store.entries[i].id>> \in history.acked
           /\ store.entries[i].duration_minutes = None

----------------------------------------------------------------------------

\* the fields of an entry that end_work writes, and those no operation writes
EndWorkFields == {"end_time", "duration_minutes", "notes", "completion_percentage"}
FixedFields == {"id", "start_time", "work_description", "work_type"}

\* the fields in which two versions of an entry differ
Changed(e, f) == {k \in DOMAIN e : e[k] # f[k]}

\* C20, as the specification states it: a step changes a stored entry only
\* through end_work (end_time, duration_minutes, notes,
\* completion_percentage) or through record_distraction (distractions), and
\* id, start_time, work_description, work_type, knowledge_refs and
\* people_refs never change
C20_OnlyEndAndDistraction ==
    [][\A i \in 1..Len(store.entries) :
          LET changed == Changed(store.entries[i], store'.entries[i])
          IN /\ changed \cap (FixedFields \cup {"knowledge_refs", "people_refs"}) = {}
             /\ changed # {} =>
                    \/ ret'.op = "end_work" /\ changed \subseteq EndWorkFields
                    \/ ret'.op = "record_distraction" /\ changed = {"distractions"}]_vars

\* xs holds each element of S once
ListsSet(xs, S) == Range(xs) = S /\ Len(xs) = Cardinality(S)

\* C20, as the code has it: a step changes at most one stored entry, the one
\* named in the call, and only through end_work (end_time, duration_minutes,
\* notes, completion_percentage), record_distraction (one record appended to
\* distractions), link_time_to_knowledge (knowledge_refs becomes the union
\* of its refs and the given ones, each once) or link_time_to_people
\* (people_refs likewise); id, start_time, work_description and work_type
\* never change, and no entry is removed
C20_EntryMutations ==
    [][/\ Len(store'.entries) >= Len(store.entries)
       /\ \A i \in 1..Len(store.entries) :
              LET e == store.entries[i]
                  f == store'.entries[i]
                  changed == Changed(e, f)
              IN /\ DOMAIN f = DOMAIN e
                 /\ changed \cap FixedFields = {}
                 /\ changed # {} =>
                        /\ ~ret'.exc
                        /\ ret'.args.work_id = e.id
                        /\ \/ /\ ret'.op = "end_work"
                              /\ changed \subseteq EndWorkFields
                           \/ /\ ret'.op = "record_distraction"
                              /\ changed = {"distractions"}
                              /\ Len(f.distractions) = Len(e.distractions) + 1
                              /\ IsPrefix(e.distractions, f.distractions)
                           \/ /\ ret'.op = "link_time_to_knowledge"
                              /\ changed = {"knowledge_refs"}
                              /\ ListsSet(f.knowledge_refs,
                                          Range(e.knowledge_refs) \cup Range(ret'.args.refs))
                           \/ /\ ret'.op = "link_time_to_people"
                              /\ changed = {"people_refs"}
                              /\ ListsSet(f.people_refs,
                                          Range(e.people_refs) \cup Range(ret'.args.refs))]_vars

\* link_time_to_knowledge has just returned True for a planned entry that was
\* created with the reference API alone and now carries DB as well
C20_Witness ==
    /\ ret.op = "link_time_to_knowledge"
    /\ ret.val = TRUE
    /\ \E i \in 1..Len(store.entries) :
           /\ store.entries[i].id = ret.args.work_id
           /\ store.entries[i].chunk_id # None
           /\ Range(store.entries[i].knowledge_refs) = {"API", "DB"}

----------------------------------------------------------------------------

\* C21: on every store that start_work, end_work and record_distraction
\* reach, entries completed with a duration of 0 included,
\* analyze_estimation_accuracy returns an EstimationAccuracy and never
\* fails, and total_estimates = accurate_estimates + overestimates +
\* underestimates
C21_AccuracyNeverFails ==
    (ret.op = "analyze_estimation_accuracy") =>
        /\ ~ret.exc
        /\ The(ret.val).total_estimates
               = The(ret.val).accurate_estimates + The(ret.val).overestimates
                     + The(ret.val).underestimates

----------------------------------------------------------------------------

\* the completed entries whose knowledge_refs hold r, each position once
ExpertiseEntries(r) ==
    {i \in 1..Len(store.entries) :
        /\ Completed(store.entries[i])
        /\ r \in Range(store.entries[i].knowledge_refs)}

StoredKnowledge == UNION {Range(store.entries[i].knowledge_refs) : i \in 1..Len(store.entries)}

\* C22: rank_expertise_by_time(min_minutes) returns exactly the references r
\* whose total T(r), the sum of the durations of the completed entries whose
\* knowledge_refs contain r with each such entry counted once, is at least
\* min_minutes; each with total_minutes = T(r) and work_item_count = the
\* number of those entries, ordered by non-increasing total and ranked 1..n
C22_RankExpertise ==
    (ret.op = "rank_expertise_by_time") =>
        LET areas == ret.val
            T(r) == SumOver(store.entries, ExpertiseEntries(r), 1)
        IN /\ {areas[i].ref : i \in 1..Len(areas)}
                  = {r \in StoredKnowledge :
                        ExpertiseEntries(r) # {} /\ T(r) >= ret.args[1]}
           /\ \A i, j \in 1..Len(areas) : areas[i].ref = areas[j].ref => i = j
           /\ \A i \in 1..Len(areas) :
                  /\ areas[i].total_minutes = T(areas[i].ref)
                  /\ areas[i].work_item_count = Cardinality(ExpertiseEntries(areas[i].ref))
                  /\ areas[i].rank = i
                  /\ i < Len(areas) => areas[i].total_minutes >= areas[i + 1].total_minutes

----------------------------------------------------------------------------

\* C23: a closed entry is immutable except for distraction appends: once
\* duration_minutes is set, no later operation, a second end_work on the
\* same id in particular, changes the entry's end_time, duration_minutes,
\* notes or completion_percentage
C23_ClosedEntryImmutable ==
    [][\A i \in 1..Len(store.entries) :
          store.entries[i].duration_minutes # None =>
              /\ i <= Len(store'.entries)
              /\ \A f \in EndWorkFields : store'.entries[i][f] = store.entries[i][f]]_vars

----------------------------------------------------------------------------

\* C24: record_distraction on an id that is present returns true whatever
\* the stage of the entry (planned, open or closed), appends exactly one
\* record (type, duration_minutes, description, timestamp of the call) at the
\* end of that entry's distractions and changes nothing else: the earlier
\* distractions are neither modified, removed nor reordered
C24_RecordDistractionAppends ==
    [][(ret'.op = "record_distraction" /\ now' = now
            /\ FindEntry(store.entries, ret'.args.work_id) # 0) =>
          LET i == FindEntry(store.entries, ret'.args.work_id)
              in == ret'.args.in
              before == store.entries[i].distractions
              after == store'.entries[i].distractions
          IN /\ ret'.val = TRUE /\ ~ret'.exc
             /\ Len(store'.entries) = Len(store.entries)
             /\ Len(after) = Len(before) + 1
             /\ SubSeq(after, 1, Len(before)) = before
             /\ after[Len(after)]
                    = [type |-> in.type, duration_minutes |-> in.duration_minutes,
                       description |-> in.description, timestamp |-> isoformat(now)]
             /\ \A j \in 1..Len(store.entries) :
                    /\ j # i => store'.entries[j] = store.entries[j]
                    /\ Changed(store.entries[j], store'.entries[j]) \subseteq {"distractions"}
             /\ store'.breakdowns = store.breakdowns]_vars

\* distractions recorded on a planned, an open and a closed entry, the one
\* on the closed entry after its end_time, and an entry with two distractions
C24_Witness ==
    /\ ret.op = "record_distraction" /\ ret.val = TRUE
    /\ \E i \in 1..Len(store.entries) :
           /\ store.entries[i].start_time = None
           /\ store.entries[i].distractions # <<>>
    /\ \E i \in 1..Len(store.entries) :
           /\ store.entries[i].start_time # None
           /\ store.entries[i].duration_minutes = None
           /\ store.entries[i].distractions # <<>>
    /\ \E i \in 1..Len(store.entries) :
           /\ store.entries[i].duration_minutes # None
           /\ store.entries[i].distractions # <<>>
           /\ fromisoformat(store.entries[i].distractions[1].timestamp)
                  > fromisoformat(store.entries[i].end_time)

----------------------------------------------------------------------------

\* 2 from the upper threshold on, 1 from the lower one on, else 0
Component(count, upper, lower) ==
    IF count >= upper THEN 2 ELSE IF count >= lower THEN 1 ELSE 0

\* the four components of the score of a description
Components(work_description) ==
    LET lowered == Lower(work_description)
        found(words) == Cardinality({w \in words : Contains(lowered, w)})
    IN << Component(Len(work_description), 101, 51),
          Component(found(action_verbs), 3, 2),
          Component(found(conjunctions), 2, 1),
          Component(found(scope_words), 2, 1) >>

\* C25: the score analyze_complexity returns is the sum of four components,
\* each 0, 1 or 2 (length above 100: 2, above 50: 1; action verbs found, at
\* least 3: 2, at least 2: 1; conjunctions found, at least 2: 2, at least 1:
\* 1; scope words found, at least 2: 2, at least 1: 1), so 0 <= score <= 8;
\* the level is high iff score >= 5, medium iff score is 3 or 4, low iff
\* score <= 2; and there is one indicator string per non-zero component
C25_ComplexityScore ==
    (ret.op = "analyze_complexity") =>
        LET parts == Components(ret.args[1])
            score == ret.val.complexity_score
        IN /\ score = parts[1] + parts[2] + parts[3] + parts[4]
           /\ score \in 0..8
           /\ (ret.val.complexity_level = "high") <=> (score >= 5)
           /\ (ret.val.complexity_level = "medium") <=> (score \in {3, 4})
           /\ (ret.val.complexity_level = "low") <=> (score <= 2)
           /\ Len(ret.val.indicators) = Cardinality({i \in 1..4 : parts[i] # 0})

\* a description of 101 characters with two verbs and one conjunction: score
\* 2 + 1 + 1 + 0 = 4 gives medium, with three indicators
C25_Witness ==
    /\ ret.op = "analyze_complexity"
    /\ Len(ret.args[1]) = 101
    /\ Components(ret.args[1]) = <<2, 1, 1, 0>>
    /\ ret.val.complexity_level = "medium"
    /\ Len(ret.val.indicators) = 3

----------------------------------------------------------------------------

\* the sums of the first floor(n / 2) periods and of the other periods
TrendHalves(period_data) ==
    LET n == Len(period_data)
        minutes == [i \in 1..n |-> period_data[i].minutes]
    IN [first |-> SumSeq(SubSeq(minutes, 1, n \div 2)), first_n |-> n \div 2,
        second |-> SumSeq(SubSeq(minutes, n \div 2 + 1, n)), second_n |-> n - n \div 2]

\* C26: the trend get_time_trends_by_knowledge returns is "stable" for fewer
\* than 2 periods; otherwise, with the average of the first floor(n / 2)
\* periods and the average of the other periods, it is "increasing" iff the
\* second average is above 1.2 times the first, "decreasing" iff it is below
\* 0.8 times the first, and "stable" else, both boundaries being strict:
\* second / second_n > 6/5 * first / first_n iff
\* 5 * second * first_n > 6 * first * second_n
C26_TrendThresholds ==
    (ret.op = "get_time_trends_by_knowledge") =>
        LET h == TrendHalves(ret.val.period_data)
            trend == ret.val.trend_direction
        IN IF Len(ret.val.period_data) < 2 THEN trend = "stable"
           ELSE /\ (trend = "increasing")
                      <=> (5 * h.second * h.first_n > 6 * h.first * h.second_n)
                /\ (trend = "decreasing")
                      <=> (5 * h.second * h.first_n < 4 * h.first * h.second_n)
                /\ trend \in {"increasing", "decreasing", "stable"}

----------------------------------------------------------------------------

NoDuplicates(list) == \A i, j \in 1..Len(list) : list[i] = list[j] => i = j

\* C27: knowledge_refs and people_refs have set semantics: no stored entry
\* holds an identifier twice in either list, whatever lists were passed to
\* start_work, link_time_to_knowledge or link_time_to_people
C27_RefsAreSets ==
    \A i \in 1..Len(store.entries) :
        /\ NoDuplicates(store.entries[i].knowledge_refs)
        /\ NoDuplicates(store.entries[i].people_refs)

----------------------------------------------------------------------------

\* C28: in every stored entry end_time is null iff duration_minutes is null;
\* an entry whose start_time is null has both null; and a duration that is
\* set is at least 0 (the clock of the model never goes backwards)
C28_EndAndDurationTogether ==
    \A i \in 1..Len(store.entries) :
        LET e == store.entries[i]
        IN /\ (e.end_time = None) <=> (e.duration_minutes = None)
           /\ e.start_time = None => (e.end_time = None /\ e.duration_minutes = None)
           /\ e.duration_minutes # None => The(e.duration_minutes) >= 0

\* a closed entry of one minute beside a planned entry on which end_work was
\* just tried
C28_Witness ==
    /\ ret.op = "end_work"
    /\ \E i \in 1..Len(store.entries) :
           /\ store.entries[i].id = ret.args.work_id
           /\ store.entries[i].start_time = None
    /\ \E i \in 1..Len(store.entries) :
           /\ store.entries[i].end_time # None
           /\ store.entries[i].duration_minutes = Some(1)
    /\ \E i \in 1..Len(store.entries) :
           /\ store.entries[i].start_time # None
           /\ store.entries[i].end_time = None

----------------------------------------------------------------------------

\* the completed entries analyze_estimation_accuracy walks, in stored order
CompletedEntries == Map(SelectSeq(store.entries, Completed), Filtered)

\* C29: analyze_estimation_accuracy backtests with prior work only: for every
\* completed entry e it evaluates, the history population holds only entries
\* of e's work type that were already completed (end_work called) before e
\* was started, whatever the interleaving of start_work and end_work on
\* different entries
C29_BacktestUsesPriorWork ==
    (ret.op = "analyze_estimation_accuracy" /\ ~ret.exc) =>
        \A i \in 1..Len(CompletedEntries) :
            Replay(CompletedEntries, i).estimated =>
                LET population == PriorSimilarWork(CompletedEntries, i)
                IN \A j \in 1..Len(population) :
                       /\ population[j].work_type = CompletedEntries[i].work_type
                       /\ fromisoformat(population[j].end_time)
                              <= fromisoformat(CompletedEntries[i].start_time)

----------------------------------------------------------------------------

\* get_breakdown_progress reporting a breakdown as worked off
BreakdownCompleted ==
    /\ ret.op = "get_breakdown_progress"
    /\ ret.val # None
    /\ The(ret.val).completed_chunks = The(ret.val).total_chunks
    /\ The(ret.val).progress_percentage = RInt(100)
    /\ The(ret.val).variance_minutes # None

\* C30: a breakdown can be worked to completion: after accept_breakdown,
\* calling end_work on each returned id leads to a state where
\* get_breakdown_progress reports completed_chunks = total_chunks and
\* progress_percentage = 100, with variance_minutes set; and in every
\* reachable state 0 <= completed_chunks <= total_chunks
C30_BreakdownCompletes ==
    /\ (ret.op = "accept_breakdown") ~> BreakdownCompleted
    /\ []((ret.op = "get_breakdown_progress" /\ ret.val # None) =>
             /\ 0 <= The(ret.val).completed_chunks
             /\ The(ret.val).completed_chunks <= The(ret.val).total_chunks)

====
